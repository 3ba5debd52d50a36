---------------------------- MODULE DriverProofs ----------------------------
(***************************************************************************)
(* Proofs about Driver, for every section of .eh_frame and every set of    *)
(* flags: what the stages of a run pass on to each other.                  *)
(***************************************************************************)
EXTENDS Driver, WellFoundedInduction, TLAPS

Raws ==
  [at : 1..Len(binary.section), range : {<<>>} \cup {binary.section[i].range : i \in 1..Len(binary.section)}]

DriverTypeOK ==
  /\ Len(binary.section) \in Nat
  /\ \A i \in 1..Len(binary.section) : binary.section[i].kind = "fde" => Addresses(binary.section[i].range)
  /\ phase \in {"open", "enumerate", "read", "structure", "uncovered", "filters", "inspect", "check", "exited"}
  /\ pos \in Nat
  /\ addrs \in Seq(1..Len(binary.section))
  /\ fdes \in Seq(Raws)
  /\ checkable \in Seq(Raws)
  /\ \A r \in results : r.verdict \in FullVerdicts

(* Stages that begin with all FDEs read, and with all of them sifted by    *)
(* the structural checks.                                                  *)
AfterReading == phase \in {"structure", "uncovered", "filters", "inspect", "check"} \/ Exited

AfterSifting == phase \in {"uncovered", "filters", "inspect", "check"} \/ Exited

InAddrs(i) == \E k \in 1..Len(addrs) : addrs[k] = i

(* EnumerateFDEs has called back for every FDE record it has passed.       *)
AllEnumerated ==
  /\ phase = "open" => addrs = <<>> /\ pos = 0
  /\ phase = "enumerate" =>
       /\ pos <= Len(binary.section)
       /\ \A i \in FDERecords : i <= pos => InAddrs(i)
       /\ \A k \in 1..Len(addrs) : addrs[k] <= pos
  /\ (phase = "read" \/ AfterReading) /\ ~enumerate_error => \A i \in Listed : InAddrs(i)
  /\ \A k, l \in 1..Len(addrs) : k < l => addrs[k] < addrs[l]

(* There is a RawFDE for every address.                                    *)
AllRawsRead ==
  /\ phase \in {"open", "enumerate"} => fdes = <<>>
  /\ phase = "read" => Len(fdes) = pos
  /\ AfterReading => Len(fdes) = Len(addrs)
  /\ Len(fdes) <= Len(addrs)
  /\ \A k \in 1..Len(fdes) :
       /\ fdes[k].at = addrs[k]
       /\ fdes[k].range # <<>> => Addresses(fdes[k].range)

Answered(at) == \E r \in results : r.at = at

Left(at) == \E i \in 1..Len(checkable) : checkable[i].at = at

(* Every RawFDE has a result or is left for the checkers.                  *)
AllSifted ==
  /\ phase \in {"open", "enumerate", "read"} => checkable = <<>> /\ results = {}
  /\ phase = "structure" => pos <= Len(fdes) /\ \A k \in 1..pos : Answered(fdes[k].at) \/ Left(fdes[k].at)
  /\ AfterSifting => \A k \in 1..Len(fdes) : Answered(fdes[k].at) \/ Left(fdes[k].at)
  /\ \A i \in 1..Len(checkable) :
       Addresses(checkable[i].range) /\ checkable[i].range[1] < checkable[i].range[2]

(* Every FDE left for the checkers has a result in the end, and the exit   *)
(* code is the one of all results.                                         *)
AllChecked ==
  /\ phase = "inspect" => flags.inspect
  /\ phase = "check" => pos <= Len(checkable) /\ (Plain => \A i \in 1..pos : Answered(checkable[i].at))
  /\ Exited /\ Plain => \A i \in 1..Len(checkable) : Answered(checkable[i].at)
  /\ Exited /\ ~flags.dump_cfi /\ ~flags.inspect => exit_code = ExitCode(results)

DriverInv ==
  /\ DriverTypeOK
  /\ AllEnumerated
  /\ AllRawsRead
  /\ AllSifted
  /\ AllChecked

Agree(rs) == \A r, s \in rs : r.at = s.at /\ r.at # 0 => r = s

(* Where no FDEs overlap, one result per FDE: none twice, and none for     *)
(* what is still to be checked.                                            *)
OneResultEach ==
  /\ \A i, j \in 1..Len(checkable) : i # j => checkable[i].at # checkable[j].at
  /\ phase = "structure" =>
       /\ Agree(results)
       /\ \A r \in results : \E k \in 1..pos : r.at = fdes[k].at
       /\ \A i \in 1..Len(checkable) : \E k \in 1..pos : checkable[i].at = fdes[k].at
       /\ \A r \in results : \A i \in 1..Len(checkable) : r.at # checkable[i].at
  /\ AfterSifting /\ ~SomeOverlap => Agree(results)
  /\ phase \in {"uncovered", "filters"} /\ ~SomeOverlap =>
       \A r \in results : \A i \in 1..Len(checkable) : r.at # checkable[i].at
  /\ phase = "check" /\ ~SomeOverlap =>
       \A r \in results : \A i \in (pos + 1)..Len(checkable) : r.at # checkable[i].at

(* Overlaps have been seen.                                                *)
OverlapsSeen == AfterSifting /\ SomeOverlap => Some(results, "MISMATCH")

-----------------------------------------------------------------------------
(* What Append leaves alone and what it adds.                              *)
LEMMA Appended ==
  ASSUME NEW S, NEW list \in Seq(S), NEW x \in S
  PROVE  /\ Append(list, x) \in Seq(S)
         /\ Len(Append(list, x)) = Len(list) + 1
         /\ \A i \in 1..Len(list) : Append(list, x)[i] = list[i]
         /\ Append(list, x)[Len(list) + 1] = x
OBVIOUS

(* No stage drops a result, and every new one has a verdict.               *)
LEMMA ResultsGrow ==
  ASSUME Next
  PROVE  /\ binary' = binary /\ flags' = flags
         /\ results \subseteq results'
         /\ \A r \in results' : r \in results \/ r.verdict \in FullVerdicts
<1> USE DEF FullVerdicts, FDEResult
<1>1. CASE StructuralCheck
  <2>1. binary' = binary /\ flags' = flags
    BY <1>1 DEF StructuralCheck
  <2>2. PICK raw : raw = fdes[pos + 1]
    OBVIOUS
  <2>3. Structural(raw) \subseteq FullVerdicts
    BY DEF Structural
  <2>4. results' = results \/ results' = results \cup {FDEResult("structure", raw.at, raw.range, v) : v \in Structural(raw)}
    BY <1>1, <2>2 DEF StructuralCheck
  <2> QED BY <2>1, <2>3, <2>4
<1>2. CASE OverlapCheck
  <2>1. \A sorted : \A r \in OverlapResults(sorted) : r.verdict = "MISMATCH"
    BY DEF OverlapResults
  <2> HIDE DEF FDEResult
  <2> QED BY <1>2, <2>1 DEF OverlapCheck
<1>3. CASE UncoveredCheck
  BY <1>3 DEF UncoveredCheck, CheckUncoveredSymbols
<1>4. CASE CheckFDE
  BY <1>4 DEF CheckFDE, LightVerdicts
<1>5. CASE UNCHANGED <<binary, flags, results>>
  BY <1>5
<1> QED BY <1>1, <1>2, <1>3, <1>4, <1>5 DEF Next, Open, EnumerateRecord, EnumerateStops, ReadFDE, AllRead,
           ParseFilters, Inspect, Report

(* The run keeps its types.                                                *)
LEMMA TypeKeeps == ASSUME DriverInv, Next PROVE DriverTypeOK'
<1>1. /\ Len(binary'.section) \in Nat
      /\ \A i \in 1..Len(binary'.section) : binary'.section[i].kind = "fde" => Addresses(binary'.section[i].range)
      /\ \A r \in results' : r.verdict \in FullVerdicts
      /\ Raws' = Raws
  BY ResultsGrow, Zenon DEF DriverInv, DriverTypeOK, Raws
<1>2. /\ phase' \in {"open", "enumerate", "read", "structure", "uncovered", "filters", "inspect", "check", "exited"}
      /\ pos' \in Nat
  <2>1. CASE EnumerateRecord \/ ReadFDE \/ StructuralCheck \/ CheckFDE
    <3>1. phase' = phase /\ pos' = pos + 1
      BY <2>1 DEF EnumerateRecord, ReadFDE, StructuralCheck, CheckFDE
    <3> QED BY <3>1 DEF DriverInv, DriverTypeOK
  <2>2. CASE Open \/ EnumerateStops \/ AllRead \/ OverlapCheck \/ UncoveredCheck \/ ParseFilters \/ Inspect \/ Report
    <3>1. pos' \in {0, pos}
      BY <2>2 DEF Open, EnumerateStops, AllRead, OverlapCheck, UncoveredCheck, ParseFilters, Inspect, Report, Proceed
    <3>2. phase' \in {"enumerate", "read", "structure", "uncovered", "filters", "inspect", "check", "exited"}
      BY <2>2, Zenon DEF Open, EnumerateStops, AllRead, OverlapCheck, UncoveredCheck, ParseFilters, Inspect, Report, Proceed, Return
    <3> QED BY <3>1, <3>2 DEF DriverInv, DriverTypeOK
  <2> QED BY <2>1, <2>2 DEF Next
<1>3. addrs' \in Seq(1..Len(binary.section))
  <2>1. CASE EnumerateRecord
    <3>1. pos + 1 \in 1..Len(binary.section) /\ (addrs' = addrs \/ addrs' = Append(addrs, pos + 1))
      BY <2>1 DEF EnumerateRecord, DriverInv, DriverTypeOK
    <3>2. addrs \in Seq(1..Len(binary.section))
      BY DEF DriverInv, DriverTypeOK
    <3>3. Append(addrs, pos + 1) \in Seq(1..Len(binary.section))
      BY ONLY <3>1, <3>2, Appended
    <3> QED BY ONLY <3>1, <3>2, <3>3
  <2>2. CASE UNCHANGED addrs
    BY <2>2 DEF DriverInv, DriverTypeOK
  <2> QED BY <2>1, <2>2 DEF Next, Open, EnumerateStops, ReadFDE, AllRead, StructuralCheck,
             OverlapCheck, UncoveredCheck, ParseFilters, Inspect, CheckFDE, Report
<1>4. fdes' \in Seq(Raws)
  <2>1. CASE ReadFDE
    <3>1. addrs[pos + 1] \in 1..Len(binary.section)
      BY <2>1 DEF ReadFDE, DriverInv, DriverTypeOK
    <3> QED BY <2>1, <3>1 DEF ReadFDE, DriverInv, DriverTypeOK, Raws
  <2>2. CASE UNCHANGED fdes
    BY <2>2 DEF DriverInv, DriverTypeOK
  <2> QED BY <2>1, <2>2 DEF Next, Open, EnumerateRecord, EnumerateStops, AllRead, StructuralCheck,
             OverlapCheck, UncoveredCheck, ParseFilters, Inspect, CheckFDE, Report
<1>5. checkable' \in Seq(Raws)
  <2>1. CASE StructuralCheck
    <3>1. fdes[pos + 1] \in Raws
      BY <2>1 DEF StructuralCheck, DriverInv, DriverTypeOK
    <3>2. checkable' = checkable \/ checkable' = Append(checkable, fdes[pos + 1])
      BY <2>1 DEF StructuralCheck
    <3>3. checkable \in Seq(Raws)
      BY DEF DriverInv, DriverTypeOK
    <3>4. Append(checkable, fdes[pos + 1]) \in Seq(Raws)
      BY ONLY <3>1, <3>3, Appended
    <3> QED BY ONLY <3>2, <3>3, <3>4
  <2>2. CASE UNCHANGED checkable
    BY <2>2 DEF DriverInv, DriverTypeOK
  <2> QED BY <2>1, <2>2 DEF Next, Open, EnumerateRecord, EnumerateStops, ReadFDE, AllRead,
             OverlapCheck, UncoveredCheck, ParseFilters, Inspect, CheckFDE, Report
<1> QED BY <1>1, <1>2, <1>3, <1>4, <1>5, ResultsGrow DEF DriverTypeOK

(* No step of EnumerateFDEs skips an FDE record or lists one twice.        *)
LEMMA EnumeratedKeeps == ASSUME DriverInv, Next PROVE AllEnumerated'
<1> USE DEF Exited, AfterReading, kExitFailure
<1>0. binary' = binary /\ FDERecords' = FDERecords /\ Listed' = Listed /\ pos \in Nat /\ Len(binary.section) \in Nat
  BY ResultsGrow DEF DriverInv, DriverTypeOK, FDERecords, Listed, Terminators
<1>1. CASE Open
  BY <1>0, <1>1 DEF Open, Proceed, Return, DriverInv, AllEnumerated, InAddrs, FDERecords
<1>2. CASE EnumerateRecord
  <2>1. phase = "enumerate" /\ phase' = "enumerate" /\ pos' = pos + 1 /\ pos + 1 \in 1..Len(binary.section)
    BY <1>0, <1>2 DEF EnumerateRecord
  <2>2. addrs \in Seq(1..Len(binary.section))
    BY DEF DriverInv, DriverTypeOK
  <2>3. CASE binary.section[pos + 1].kind = "cie"
    <3>1. addrs' = addrs /\ pos + 1 \notin FDERecords
      BY <1>2, <2>3 DEF EnumerateRecord, FDERecords
    <3>2. \A i \in FDERecords : i <= pos + 1 => InAddrs(i)'
      BY <1>0, <2>1, <3>1 DEF DriverInv, AllEnumerated, InAddrs, FDERecords
    <3>3. \A k \in 1..Len(addrs') : addrs'[k] <= pos + 1
      BY <1>0, <2>1, <2>2, <3>1 DEF DriverInv, AllEnumerated
    <3>4. \A k, l \in 1..Len(addrs') : k < l => addrs'[k] < addrs'[l]
      BY <3>1 DEF DriverInv, AllEnumerated
    <3> QED BY <1>0, <2>1, <3>2, <3>3, <3>4 DEF AllEnumerated
  <2>4. CASE binary.section[pos + 1].kind # "cie"
    <3>1. addrs' = Append(addrs, pos + 1)
      BY <1>2, <2>4 DEF EnumerateRecord
    <3>2. /\ Len(addrs') = Len(addrs) + 1 /\ Len(addrs) \in Nat
          /\ \A k \in 1..Len(addrs) : addrs'[k] = addrs[k] /\ addrs[k] \in Nat
          /\ addrs'[Len(addrs) + 1] = pos + 1
      BY <2>1, <2>2, <3>1, Appended
    <3>3. /\ \A i \in FDERecords : i <= pos => InAddrs(i)
          /\ \A k \in 1..Len(addrs) : addrs[k] <= pos
          /\ \A k, l \in 1..Len(addrs) : k < l => addrs[k] < addrs[l]
      BY <2>1 DEF DriverInv, AllEnumerated
    <3>4. \A i \in FDERecords : i <= pos + 1 => InAddrs(i)'
      BY <1>0, <3>2, <3>3 DEF InAddrs, FDERecords
    <3>5. \A k \in 1..Len(addrs') : addrs'[k] <= pos + 1
      BY <1>0, <3>2, <3>3
    <3>6. \A k, l \in 1..Len(addrs') : k < l => addrs'[k] < addrs'[l]
      BY <1>0, <3>2, <3>3
    <3> QED BY <1>0, <2>1, <3>4, <3>5, <3>6 DEF AllEnumerated
  <2> QED BY <2>3, <2>4
<1>3. CASE EnumerateStops
  <2>1. ASSUME NEW i \in Listed, ~enumerate_error' PROVE InAddrs(i)
    <3>1. i \in FDERecords /\ i <= Len(binary.section) /\ i \in Nat
      BY DEF Listed, FDERecords
    <3>2. i <= pos
      <4>1. CASE pos < Len(binary.section)
        <5>0. binary.section[pos + 1].kind = "end"
          BY <1>3, <2>1, <4>1, Zenon DEF EnumerateStops
        <5>1. pos + 1 \in Terminators
          BY <1>0, <4>1, <5>0 DEF Terminators
        <5> QED BY <1>0, <3>1, <5>1 DEF Listed
      <4> QED BY <1>0, <3>1, <4>1
    <3> QED BY <1>3, <3>1, <3>2 DEF EnumerateStops, DriverInv, AllEnumerated
  <2>2. phase' = "read" /\ addrs' = addrs
    BY <1>3 DEF EnumerateStops, Proceed
  <2> QED BY <1>0, <2>1, <2>2 DEF DriverInv, AllEnumerated, InAddrs
<1>4. CASE UNCHANGED <<addrs, enumerate_error>> /\ (phase = "read" \/ AfterReading) /\ phase' \notin {"open", "enumerate"}
  BY <1>0, <1>4 DEF DriverInv, AllEnumerated, InAddrs
<1>5. CASE phase \notin {"open", "enumerate"}
  <2>1. UNCHANGED <<addrs, enumerate_error>>
    BY <1>5 DEF Next, Open, EnumerateRecord, EnumerateStops, ReadFDE, AllRead, StructuralCheck,
             OverlapCheck, UncoveredCheck, ParseFilters, Inspect, CheckFDE, Report
  <2>2. phase = "read" \/ AfterReading
    BY <1>5 DEF Next, Open, EnumerateRecord, EnumerateStops, ReadFDE, AllRead, StructuralCheck,
             OverlapCheck, UncoveredCheck, ParseFilters, Inspect, CheckFDE, Report
  <2>3. phase' \notin {"open", "enumerate"}
    BY <1>5, Zenon DEF Next, Open, EnumerateRecord, EnumerateStops, ReadFDE, AllRead, StructuralCheck,
             OverlapCheck, UncoveredCheck, ParseFilters, Inspect, CheckFDE, Report, Proceed, Return
  <2> QED BY <1>4, <2>1, <2>2, <2>3
<1> QED BY <1>1, <1>2, <1>3, <1>5 DEF Next, ReadFDE, AllRead, StructuralCheck,
           OverlapCheck, UncoveredCheck, ParseFilters, Inspect, CheckFDE, Report

(* ReadAllFDEs reads the listed records in their order, one RawFDE each.   *)
LEMMA RawsKeep == ASSUME DriverInv, Next PROVE AllRawsRead'
<1> USE DEF Exited, AfterReading, kExitFailure
<1>0. /\ pos \in Nat /\ addrs \in Seq(1..Len(binary.section)) /\ fdes \in Seq(Raws)
      /\ \A i \in 1..Len(binary.section) : binary.section[i].kind = "fde" => Addresses(binary.section[i].range)
  BY DEF DriverInv, DriverTypeOK
<1>1. CASE Open \/ EnumerateRecord \/ EnumerateStops
  <2>1. fdes = <<>> /\ fdes' = <<>> /\ (phase' = "read" => pos' = 0) /\ ~AfterReading'
    BY <1>1 DEF Open, EnumerateRecord, EnumerateStops, Proceed, Return, DriverInv, AllRawsRead
  <2>2. Len(addrs') \in Nat
    BY TypeKeeps DEF DriverTypeOK
  <2> QED BY <2>1, <2>2 DEF AllRawsRead
<1>2. CASE ReadFDE
  <2>1. /\ pos = Len(fdes) /\ pos < Len(addrs) /\ phase' = "read" /\ pos' = pos + 1 /\ addrs' = addrs
        /\ \A k \in 1..Len(fdes) : fdes[k].at = addrs[k] /\ (fdes[k].range # <<>> => Addresses(fdes[k].range))
    BY <1>2 DEF ReadFDE, DriverInv, AllRawsRead
  <2>2. addrs[pos + 1] \in 1..Len(binary.section)
    BY <1>0, <2>1
  <2>a. PICK raw : raw = [at |-> addrs[pos + 1],
                          range |-> IF binary.section[addrs[pos + 1]].kind = "fde"
                                    THEN binary.section[addrs[pos + 1]].range ELSE <<>>]
    BY Zenon
  <2>b. raw \in Raws /\ raw.at = addrs[pos + 1] /\ (raw.range # <<>> => Addresses(raw.range))
    BY <1>0, <2>2, <2>a DEF Raws
  <2>3. raw \in Raws /\ fdes' = Append(fdes, raw) /\ raw.at = addrs[pos + 1]
           /\ (raw.range # <<>> => Addresses(raw.range))
    BY <1>2, <2>a, <2>b DEF ReadFDE
  <2>4. /\ Len(fdes') = Len(fdes) + 1 /\ fdes'[Len(fdes) + 1] = raw
        /\ \A k \in 1..Len(fdes) : fdes'[k] = fdes[k]
    BY <1>0, <2>3, Appended
  <2>5. \A k \in 1..Len(fdes') : fdes'[k].at = addrs[k] /\ (fdes'[k].range # <<>> => Addresses(fdes'[k].range))
    BY <1>0, <2>1, <2>3, <2>4
  <2> HIDE DEF AfterReading
  <2>6. ~AfterReading'
    BY <2>1 DEF AfterReading
  <2> QED BY <1>0, <2>1, <2>4, <2>5, <2>6 DEF AllRawsRead
<1>3. CASE AllRead
  <2>1. Len(fdes) = Len(addrs) /\ fdes' = fdes /\ addrs' = addrs /\ phase' \in {"structure", "exited"}
    BY <1>3 DEF AllRead, Proceed, Return, DriverInv, AllRawsRead
  <2> QED BY <2>1 DEF DriverInv, AllRawsRead
<1>4. CASE AfterReading
  <2>1. UNCHANGED <<addrs, fdes>>
    BY <1>4 DEF Next, Open, EnumerateRecord, EnumerateStops, ReadFDE, AllRead, StructuralCheck,
             OverlapCheck, UncoveredCheck, ParseFilters, Inspect, CheckFDE, Report
  <2>2. phase' \notin {"open", "enumerate", "read"}
    BY <1>4, Zenon DEF Next, Open, EnumerateRecord, EnumerateStops, ReadFDE, AllRead, StructuralCheck,
             OverlapCheck, UncoveredCheck, ParseFilters, Inspect, CheckFDE, Report, Proceed, Return
  <2> QED BY <1>4, <2>1, <2>2 DEF DriverInv, AllRawsRead
<1> QED BY <1>1, <1>2, <1>3, <1>4 DEF Next, StructuralCheck,
           OverlapCheck, UncoveredCheck, ParseFilters, Inspect, CheckFDE, Report

(* What has a result keeps one.                                            *)
LEMMA AnswersStay == ASSUME Next PROVE \A at : Answered(at) => Answered(at)'
  BY ResultsGrow DEF Answered

(* RunStructuralChecks answers an FDE or leaves it for the checkers.       *)
LEMMA SiftedKeep == ASSUME DriverInv, Next PROVE AllSifted'
<1> USE DEF Exited, AfterSifting, kExitFailure
<1>0. /\ pos \in Nat /\ fdes \in Seq(Raws) /\ checkable \in Seq(Raws)
      /\ \A k \in 1..Len(fdes) : fdes[k].range # <<>> => Addresses(fdes[k].range)
  BY DEF DriverInv, DriverTypeOK, AllRawsRead
<1>1. CASE Open \/ EnumerateRecord \/ EnumerateStops \/ ReadFDE \/ AllRead
  <2>1. /\ checkable' = <<>> /\ results' = {} /\ ~AfterSifting' /\ (phase' = "structure" => pos' = 0)
    BY <1>1 DEF Open, EnumerateRecord, EnumerateStops, ReadFDE, AllRead, Proceed, Return, DriverInv, AllSifted
  <2>2. Len(fdes') \in Nat
    BY TypeKeeps DEF DriverTypeOK
  <2> QED BY <2>1, <2>2 DEF AllSifted
<1>2. CASE StructuralCheck
  <2>1. /\ pos + 1 \in 1..Len(fdes) /\ phase' = "structure" /\ pos' = pos + 1 /\ fdes' = fdes
        /\ \A k \in 1..pos : Answered(fdes[k].at) \/ Left(fdes[k].at)
        /\ \A i \in 1..Len(checkable) :
             Addresses(checkable[i].range) /\ checkable[i].range[1] < checkable[i].range[2]
    BY <1>0, <1>2 DEF StructuralCheck, DriverInv, AllSifted
  <2>a. PICK raw : raw = fdes[pos + 1]
    OBVIOUS
  <2>2. CASE Structural(raw) = {}
    <3>1. checkable' = Append(checkable, raw) /\ results' = results
      BY <1>2, <2>2, <2>a DEF StructuralCheck
    <3>2. raw.range # <<>> /\ ~(raw.range[2] <= raw.range[1])
      BY <2>2 DEF Structural
    <3>3. Addresses(raw.range) /\ raw.range[1] < raw.range[2]
      BY <1>0, <2>1, <2>a, <3>2 DEF Addresses
    <3>4. raw \in Raws
      BY <1>0, <2>1, <2>a
    <3>5. /\ Len(checkable') = Len(checkable) + 1 /\ Len(checkable) \in Nat
          /\ checkable'[Len(checkable) + 1] = raw
          /\ \A i \in 1..Len(checkable) : checkable'[i] = checkable[i]
      BY <1>0, <3>1, <3>4, Appended
    <3>6. \A i \in 1..Len(checkable') :
             Addresses(checkable'[i].range) /\ checkable'[i].range[1] < checkable'[i].range[2]
      BY <2>1, <3>3, <3>5
    <3>7. Left(raw.at)' /\ \A at : Left(at) => Left(at)'
      BY <3>5 DEF Left
    <3>8. \A k \in 1..(pos + 1) : Answered(fdes[k].at)' \/ Left(fdes[k].at)'
      BY <1>0, <2>1, <3>7, <2>a, AnswersStay
    <3> QED BY <1>0, <2>1, <3>6, <3>8 DEF AllSifted
  <2>3. CASE Structural(raw) # {}
    <3>1. checkable' = checkable
      BY <1>2, <2>3, <2>a DEF StructuralCheck
    <3>a. PICK v : v \in Structural(raw)
      BY <2>3
    <3>b. FDEResult("structure", raw.at, raw.range, v) \in results'
      BY <1>2, <2>3, <2>a, <3>a DEF StructuralCheck
    <3>2. \E r \in results' : r.at = raw.at
      BY <3>b DEF FDEResult
    <3>3. Answered(raw.at)' /\ \A at : Left(at) => Left(at)'
      BY <3>1, <3>2 DEF Answered, Left
    <3>4. \A k \in 1..(pos + 1) : Answered(fdes[k].at)' \/ Left(fdes[k].at)'
      <4> TAKE k \in 1..(pos + 1)
      <4>1. CASE k = pos + 1
        BY <2>1, <2>a, <3>3, <4>1
      <4>2. CASE k \in 1..pos
        BY <2>1, <3>3, <4>2, AnswersStay
      <4> QED BY <1>0, <4>1, <4>2
    <3> QED BY <1>0, <2>1, <3>1, <3>4 DEF AllSifted
  <2> QED BY <2>2, <2>3
<1>3. CASE (OverlapCheck \/ AfterSifting) /\ ~StructuralCheck
  <2>1. UNCHANGED <<checkable, fdes>>
    BY <1>3 DEF Next, Open, EnumerateRecord, EnumerateStops, ReadFDE, AllRead,
             OverlapCheck, UncoveredCheck, ParseFilters, Inspect, CheckFDE, Report
  <2>2. phase' \notin {"open", "enumerate", "read", "structure"}
    BY <1>3, Zenon DEF Next, Open, EnumerateRecord, EnumerateStops, ReadFDE, AllRead,
             OverlapCheck, UncoveredCheck, ParseFilters, Inspect, CheckFDE, Report, Proceed, Return
  <2>3. \A k \in 1..Len(fdes) : Answered(fdes[k].at) \/ Left(fdes[k].at)
    BY <1>3 DEF OverlapCheck, DriverInv, AllSifted
  <2>4. \A k \in 1..Len(fdes) : Answered(fdes[k].at)' \/ Left(fdes[k].at)'
    BY <2>1, <2>3, AnswersStay DEF Left
  <2> QED BY <2>1, <2>2, <2>4 DEF DriverInv, AllSifted
<1> QED BY <1>1, <1>2, <1>3 DEF Next, UncoveredCheck, ParseFilters, Inspect, CheckFDE, Report

(* The loop over checkable answers each FDE it passes; the exit code is    *)
(* that of all results.                                                    *)
LEMMA CheckedKeep == ASSUME DriverInv, Next PROVE AllChecked'
<1> USE DEF Exited, kExitFailure
<1>0. pos \in Nat /\ checkable \in Seq(Raws) /\ flags' = flags /\ (Plain' <=> Plain)
  BY ResultsGrow DEF DriverInv, DriverTypeOK, Plain
<1>1. CASE Open \/ EnumerateRecord \/ EnumerateStops \/ ReadFDE \/ AllRead \/ StructuralCheck \/ OverlapCheck \/ UncoveredCheck
  <2>1. phase' \notin {"inspect", "check"} /\ ~Exited'
    BY <1>1 DEF Open, EnumerateRecord, EnumerateStops, ReadFDE, AllRead, StructuralCheck, OverlapCheck,
         UncoveredCheck, Proceed, Return
  <2> QED BY <2>1 DEF AllChecked
<1>2. CASE ParseFilters
  <2>1. /\ ~Exited' /\ (phase' = "inspect" => flags.inspect) /\ (phase' = "check" => pos' = 0)
        /\ checkable' = checkable
    BY <1>2 DEF ParseFilters, Proceed, Return
  <2> HIDE DEF Exited
  <2> QED BY <1>0, <2>1 DEF AllChecked
<1>3. CASE Inspect
  <2>1. phase' = "exited" /\ flags.inspect
    BY <1>3, Zenon DEF Inspect, Return, DriverInv, AllChecked
  <2> QED BY <1>0, <2>1 DEF AllChecked, Plain
<1>4. CASE CheckFDE
  <2>1. /\ pos + 1 \in 1..Len(checkable) /\ phase' = "check" /\ pos' = pos + 1 /\ checkable' = checkable
        /\ Plain => \A i \in 1..pos : Answered(checkable[i].at)
    BY <1>0, <1>4 DEF CheckFDE, DriverInv, AllChecked
  <2>a. PICK raw : raw = checkable[pos + 1]
    OBVIOUS
  <2>2. Plain => Answered(raw.at)'
    <3> SUFFICES ASSUME Plain PROVE Answered(raw.at)'
      OBVIOUS
    <3>1. Selected(raw) /\ ~flags.dump_cfi
      BY DEF Plain, Selected
    <3>2. PICK v : FDEResult("check", raw.at, raw.range, v) \in results'
      BY <1>4, <2>a, <3>1 DEF CheckFDE
    <3> QED BY <3>2 DEF FDEResult, Answered
  <2>3. Plain => \A i \in 1..(pos + 1) : Answered(checkable[i].at)'
    <3> SUFFICES ASSUME Plain, NEW i \in 1..(pos + 1) PROVE Answered(checkable[i].at)'
      OBVIOUS
    <3>1. CASE i = pos + 1
      BY <2>1, <2>a, <2>2, <3>1
    <3>2. CASE i \in 1..pos
      BY <2>1, <3>2, AnswersStay
    <3> QED BY <1>0, <3>1, <3>2
  <2> QED BY <1>0, <2>1, <2>3 DEF AllChecked
<1>5. CASE Report
  <2>1. /\ phase' = "exited" /\ checkable' = checkable /\ results' = results
        /\ Plain => \A i \in 1..Len(checkable) : Answered(checkable[i].at)
        /\ ~flags.dump_cfi => exit_code' = ExitCode(results)
    BY <1>5 DEF Report, Return, DriverInv, AllChecked
  <2>2. Plain => \A i \in 1..Len(checkable) : Answered(checkable[i].at)'
    BY <2>1, AnswersStay
  <2> HIDE DEF Exited
  <2>3. Exited' /\ ~flags'.dump_cfi /\ ~flags'.inspect => exit_code' = ExitCode(results')
    BY <1>0, <2>1
  <2> QED BY <1>0, <2>1, <2>2, <2>3 DEF AllChecked
<1> QED BY <1>1, <1>2, <1>3, <1>4, <1>5 DEF Next

-----------------------------------------------------------------------------
(* A run starts within the invariant.                                      *)
LEMMA DriverInvInit == ASSUME Init PROVE DriverInv
<1> USE DEF Init, Exited
<1>1. DriverTypeOK
  BY InvocationsAssumption DEF DriverTypeOK
<1>2. AllEnumerated /\ AllRawsRead
  BY DEF AllEnumerated, AllRawsRead, AfterReading
<1>3. AllSifted /\ AllChecked
  BY DEF AllSifted, AllChecked, AfterSifting
<1> QED BY <1>1, <1>2, <1>3 DEF DriverInv

(* The invariant of a run, for every section and all flags.                *)
THEOREM DriverInvariant == Spec => []DriverInv
<1>1. Init => DriverInv
  BY DriverInvInit
<1>2. DriverInv /\ [Next]_vars => DriverInv'
  <2>1. CASE UNCHANGED vars
    <3> USE <2>1 DEF vars, Exited
    <3>1. DriverTypeOK => DriverTypeOK'
      BY DEF DriverTypeOK, Raws
    <3>2. AllEnumerated => AllEnumerated'
      BY DEF AllEnumerated, AfterReading, InAddrs, FDERecords, Listed, Terminators
    <3>3. AllRawsRead => AllRawsRead'
      BY DEF AllRawsRead, AfterReading
    <3>4. AllSifted => AllSifted'
      BY DEF AllSifted, AfterSifting, Answered, Left
    <3>5. AllChecked => AllChecked'
      BY DEF AllChecked, Answered, Plain
    <3> QED BY <3>1, <3>2, <3>3, <3>4, <3>5 DEF DriverInv
  <2>2. ASSUME DriverInv, Next PROVE DriverInv'
    BY <2>2, TypeKeeps, EnumeratedKeeps, RawsKeep, SiftedKeep, CheckedKeep DEF DriverInv
  <2> QED BY <2>1, <2>2
<1> QED BY <1>1, <1>2, PTL DEF Spec

(* No record is lost between the stages: ZeroMeansAllBlessed, for every    *)
(* section of .eh_frame, all flags, and whatever the checkers answer.      *)
THEOREM ZeroIsAllBlessed == Spec => []ZeroMeansAllBlessed
<1>1. DriverInv => ZeroMeansAllBlessed
  <2> SUFFICES ASSUME DriverInv, Exited, Plain, ~enumerate_error, NEW at \in Listed
               PROVE  /\ ResultsOf(at) # {}
                      /\ exit_code = kExitBlessed => \A r \in ResultsOf(at) : r.verdict = "BLESSED"
    BY Zenon DEF ZeroMeansAllBlessed
  <2>1. PICK k \in 1..Len(addrs) : addrs[k] = at
    BY DEF DriverInv, AllEnumerated, AfterReading, InAddrs
  <2>2. k \in 1..Len(fdes) /\ fdes[k].at = at
    BY <2>1 DEF DriverInv, AllRawsRead, AfterReading
  <2>3. Answered(at)
    <3>1. Answered(at) \/ Left(at)
      BY <2>2 DEF DriverInv, AllSifted, AfterSifting
    <3> QED BY <3>1 DEF Left, DriverInv, AllChecked
  <2>4. exit_code = ExitCode(results)
    BY DEF DriverInv, AllChecked, Plain
  <2>5. \A r \in results : r.verdict \in FullVerdicts
    BY DEF DriverInv, DriverTypeOK
  <2>6. exit_code = kExitBlessed => \A r \in results : r.verdict = "BLESSED"
    BY <2>4, <2>5 DEF ExitCode, Some, FullVerdicts, kExitBlessed, kExitMismatch, kExitReview
  <2> QED BY <2>3, <2>6 DEF Answered, ResultsOf
<1> QED BY <1>1, DriverInvariant, PTL

-----------------------------------------------------------------------------
(* A set of positions that is not empty has a first.                       *)
LEMMA FirstOf == ASSUME NEW T, T \subseteq Nat, T # {} PROVE \E j \in T : \A m \in T : j <= m
<1>1. PICK j \in T : \A m \in T : ~(<<m, j>> \in OpToRel(<, Nat))
  <2> HIDE DEF OpToRel
  <2> QED BY NatLessThanWellFounded, WFMin, Zenon
<1>2. \A m \in T : ~(m < j)
  BY <1>1, Zenon DEF OpToRel
<1> QED BY <1>2

(* Ranges of which no two neighbours overlap lie one after the other.      *)
LEMMA Apart ==
  ASSUME NEW n \in Nat, NEW b \in [1..n -> Int], NEW e \in [1..n -> Int],
         \A i \in 1..n : b[i] < e[i],
         \A k \in 2..n : e[k - 1] <= b[k]
  PROVE  \A i, j \in 1..n : i < j => e[i] <= b[j]
<1> DEFINE Bad == {j \in 1..n : \E i \in 1..n : i < j /\ b[j] < e[i]}
<1>1. ASSUME Bad # {} PROVE FALSE
  <2>0. Bad \subseteq Nat
    OBVIOUS
  <2>1. PICK j \in Bad : \A m \in Bad : j <= m
    <3> HIDE DEF Bad
    <3> QED BY <1>1, <2>0, FirstOf, Zenon
  <2>2. PICK i \in 1..n : i < j /\ b[j] < e[i]
    OBVIOUS
  <2>3. j \in 2..n /\ j - 1 \in 1..n /\ j - 1 \notin Bad
    BY <2>1, <2>2
  <2>4. CASE i = j - 1
    BY <2>2, <2>3, <2>4
  <2>5. CASE i < j - 1
    <3>1. e[i] <= b[j - 1]
      BY <2>3, <2>5
    <3>2. b[j - 1] < e[j - 1] /\ e[j - 1] <= b[j]
      BY <2>3
    <3> QED BY <2>2, <2>3, <3>1, <3>2
  <2> QED BY <2>2, <2>4, <2>5
<1>2. SUFFICES ASSUME NEW i \in 1..n, NEW j \in 1..n, i < j, b[j] < e[i] PROVE FALSE
  OBVIOUS
<1>3. j \in Bad
  BY <1>2
<1> QED BY <1>1, <1>3, Zenon

(* A sorted order lists every FDE, once.                                   *)
LEMMA OrderIsBijection ==
  ASSUME NEW raws, Len(raws) \in Nat, NEW o \in Orders(raws)
  PROVE  /\ o \in [1..Len(raws) -> 1..Len(raws)]
         /\ \A i, j \in 1..Len(raws) : i # j => o[i] # o[j]
         /\ \A i \in 1..Len(raws) : \E p \in 1..Len(raws) : o[p] = i
         /\ \A i \in 1..(Len(raws) - 1) : raws[o[i]].range[1] <= raws[o[i + 1]].range[1]
BY DEF Orders, Bijection, Injection, Surjection, IsInjective

(* The neighbours' check finds an overlap exactly if there is one.         *)
LEMMA NeighboursSuffice ==
  ASSUME checkable \in Seq(Raws),
         \A i \in 1..Len(checkable) : Addresses(checkable[i].range) /\ checkable[i].range[1] < checkable[i].range[2],
         NEW o \in Orders(checkable)
  PROVE  SomeOverlap <=> OverlapResults([i \in 1..Len(checkable) |-> checkable[o[i]]]) # {}
<1> DEFINE n == Len(checkable)
           first(i) == checkable[i].range[1]
           end(i) == checkable[i].range[2]
           b == [i \in 1..n |-> first(o[i])]
           e == [i \in 1..n |-> end(o[i])]
           sorted == [i \in 1..n |-> checkable[o[i]]]
<1>0. n \in Nat
  OBVIOUS
<1>1. /\ o \in [1..n -> 1..n]
      /\ \A i, j \in 1..n : i # j => o[i] # o[j]
      /\ \A i \in 1..n : \E p \in 1..n : o[p] = i
      /\ \A i \in 1..(n - 1) : first(o[i]) <= first(o[i + 1])
  BY <1>0, OrderIsBijection
<1>a. \A i \in 1..n : first(i) \in Int /\ end(i) \in Int /\ first(i) < end(i)
  BY DEF Addresses
<1>b. \A i, j \in 1..n : Overlap(i, j) <=> i # j /\ first(i) < end(j) /\ first(j) < end(i)
  BY DEF Overlap
<1>c. SomeOverlap <=> \E i, j \in 1..n : Overlap(i, j)
  BY DEF SomeOverlap
<1>3. /\ Len(sorted) = n
      /\ \A k \in 1..n : sorted[k].range[1] = first(o[k]) /\ sorted[k].range[2] = end(o[k])
  BY <1>0
<1>d. OverlapResults(sorted) = {} <=> \A k \in 2..n : ~(sorted[k].range[1] < sorted[k - 1].range[2])
  <2>1. Len(sorted) = n
    BY <1>3
  <2> HIDE DEF sorted, n, first, end
  <2> QED BY <2>1 DEF OverlapResults
<1> HIDE DEF first, end, n, sorted
<1>2. /\ b \in [1..n -> Int] /\ e \in [1..n -> Int] /\ \A i \in 1..n : b[i] < e[i]
      /\ \A i \in 1..(n - 1) : b[i] <= b[i + 1]
  <2>1. \A i \in 1..n : o[i] \in 1..n
    BY <1>1, Zenon
  <2>2. \A i \in 1..n : first(o[i]) \in Int /\ end(o[i]) \in Int /\ first(o[i]) < end(o[i])
    BY <1>a, <2>1
  <2>3. \A i \in 1..n : b[i] = first(o[i]) /\ e[i] = end(o[i])
    OBVIOUS
  <2>4. \A i \in 1..(n - 1) : i \in 1..n /\ i + 1 \in 1..n
    BY <1>0
  <2>5. b \in [1..n -> Int] /\ e \in [1..n -> Int]
    BY <2>2
  <2> HIDE DEF b, e
  <2>6. \A i \in 1..n : b[i] < e[i]
    BY <2>2, <2>3
  <2>7. \A i \in 1..(n - 1) : b[i] <= b[i + 1]
    BY <1>1, <2>3, <2>4
  <2> QED BY <2>5, <2>6, <2>7
<1>4. OverlapResults(sorted) = {} <=> \A k \in 2..n : e[k - 1] <= b[k]
  <2>1. ASSUME NEW k \in 2..n PROVE sorted[k].range[1] < sorted[k - 1].range[2] <=> ~(e[k - 1] <= b[k])
    <3>1. k \in 1..n /\ k - 1 \in 1..n
      BY <1>0
    <3>2. sorted[k].range[1] = b[k] /\ sorted[k - 1].range[2] = e[k - 1]
      BY <1>3, <3>1
    <3>3. b[k] \in Int /\ e[k - 1] \in Int
      BY <1>2, <3>1
    <3> HIDE DEF b, e
    <3> QED BY <3>2, <3>3
  <2> HIDE DEF b, e
  <2> QED BY <1>d, <2>1
<1>5. \A p, q \in 1..n : Overlap(o[p], o[q]) <=> p # q /\ b[p] < e[q] /\ b[q] < e[p]
  BY <1>1, <1>b, Zenon
<1>6. SomeOverlap <=> \E p, q \in 1..n : Overlap(o[p], o[q])
  <2>1. ASSUME NEW i \in 1..n, NEW j \in 1..n, Overlap(i, j) PROVE \E p, q \in 1..n : Overlap(o[p], o[q])
    <3>1. PICK p \in 1..n : o[p] = i
      BY <1>1
    <3>2. PICK q \in 1..n : o[q] = j
      BY <1>1
    <3> QED BY <2>1, <3>1, <3>2
  <2>2. ASSUME NEW p \in 1..n, NEW q \in 1..n, Overlap(o[p], o[q]) PROVE \E i, j \in 1..n : Overlap(i, j)
    <3>1. o[p] \in 1..n /\ o[q] \in 1..n
      BY <1>1, Zenon
    <3> QED BY <2>2, <3>1
  <2> QED BY <1>c, <2>1, <2>2
<1> HIDE DEF b, e
<1>7. ASSUME \A k \in 2..n : e[k - 1] <= b[k] PROVE ~SomeOverlap
  <2>1. \A i, j \in 1..n : i < j => e[i] <= b[j]
    BY <1>0, <1>2, <1>7, Apart, Zenon
  <2>2. ASSUME NEW p \in 1..n, NEW q \in 1..n, Overlap(o[p], o[q]) PROVE FALSE
    <3>1. p # q /\ b[p] < e[q] /\ b[q] < e[p]
      BY <1>5, <2>2
    <3>2. b[p] \in Int /\ e[p] \in Int /\ b[q] \in Int /\ e[q] \in Int
      BY <1>2
    <3>3. p < q \/ q < p
      BY <1>0, <3>1
    <3>4. (p < q => e[p] <= b[q]) /\ (q < p => e[q] <= b[p])
      BY <2>1
    <3> QED BY <3>1, <3>2, <3>3, <3>4
  <2> QED BY <1>6, <2>2
<1>8. ASSUME NEW k \in 2..n, ~(e[k - 1] <= b[k]) PROVE SomeOverlap
  <2>1. k \in 1..n /\ k - 1 \in 1..(n - 1) /\ k - 1 \in 1..n /\ k = (k - 1) + 1
    BY <1>0
  <2>2. b[k - 1] <= b[k] /\ b[k] < e[k] /\ b[k] < e[k - 1] /\ b[k - 1] < e[k]
    BY <1>2, <1>8, <2>1
  <2>3. Overlap(o[k - 1], o[k])
    BY <1>5, <2>1, <2>2
  <2> QED BY <1>6, <2>1, <2>3
<1> QED BY <1>4, <1>7, <1>8, Zenon DEF sorted, n

-----------------------------------------------------------------------------
(* From the structural checks on the list of checkable FDEs is final.      *)
LEMMA ListStays ==
  ASSUME Next, AfterSifting
  PROVE  checkable' = checkable /\ (SomeOverlap' <=> SomeOverlap)
<1>1. checkable' = checkable
  BY DEF AfterSifting, Exited, Next, Open, EnumerateRecord, EnumerateStops, ReadFDE, AllRead, StructuralCheck,
         OverlapCheck, UncoveredCheck, ParseFilters, Inspect, CheckFDE, Report
<1> QED BY <1>1 DEF SomeOverlap, Overlap

(* The structural checks are left by the check for overlaps only.          *)
LEMMA OverlapCheckLeaves ==
  ASSUME Next, AfterSifting'
  PROVE  OverlapCheck \/ AfterSifting
BY DEF AfterSifting, Exited, kExitFailure, Next, Open, EnumerateRecord, EnumerateStops, ReadFDE, AllRead, StructuralCheck,
       OverlapCheck, UncoveredCheck, ParseFilters, Inspect, CheckFDE, Report, Proceed, Return

(* The check for overlaps reports one if there is one, and is silent if    *)
(* there is none.                                                          *)
LEMMA OverlapStep ==
  ASSUME DriverInv, OverlapCheck
  PROVE  /\ checkable' = checkable /\ (SomeOverlap' <=> SomeOverlap)
         /\ SomeOverlap => Some(results, "MISMATCH")'
         /\ ~SomeOverlap => results' = results
<1>1. /\ checkable \in Seq(Raws)
      /\ \A i \in 1..Len(checkable) : Addresses(checkable[i].range) /\ checkable[i].range[1] < checkable[i].range[2]
  BY DEF DriverInv, DriverTypeOK, AllSifted
<1>2. PICK o \in Orders(checkable) :
        results' = results \cup OverlapResults([i \in 1..Len(checkable) |-> checkable[o[i]]])
  BY DEF OverlapCheck
<1>3. PICK new : new = OverlapResults([i \in 1..Len(checkable) |-> checkable[o[i]]])
  BY Zenon
<1>4. SomeOverlap <=> new # {}
  BY <1>1, <1>3, NeighboursSuffice, Zenon
<1>5. \A sorted : \A r \in OverlapResults(sorted) : r.verdict = "MISMATCH"
  BY DEF OverlapResults, FDEResult
<1>6. \A r \in new : r.verdict = "MISMATCH"
  BY <1>3, <1>5
<1>7. checkable' = checkable /\ (SomeOverlap' <=> SomeOverlap)
  BY DEF OverlapCheck, SomeOverlap, Overlap
<1>8. results' = results \cup new
  BY <1>2, <1>3
<1> QED BY <1>4, <1>6, <1>7, <1>8 DEF Some

(* A reported overlap stays reported.                                      *)
LEMMA OverlapsSeenKeeps == ASSUME DriverInv, OverlapsSeen, Next PROVE OverlapsSeen'
<1>1. CASE OverlapCheck
  BY <1>1, OverlapStep DEF OverlapsSeen
<1>2. CASE AfterSifting
  BY <1>2, ListStays, ResultsGrow DEF OverlapsSeen, Some
<1>3. CASE ~AfterSifting'
  BY <1>3 DEF OverlapsSeen
<1> QED BY <1>1, <1>2, <1>3, OverlapCheckLeaves

(* One result per FDE: during the structural checks.                       *)
LEMMA StructuralOnce == ASSUME DriverInv, OneResultEach, StructuralCheck PROVE OneResultEach'
<1>1. /\ pos \in Nat /\ pos + 1 \in 1..Len(fdes) /\ phase = "structure" /\ phase' = "structure"
      /\ pos' = pos + 1 /\ fdes' = fdes /\ checkable \in Seq(Raws) /\ fdes \in Seq(Raws)
  BY DEF StructuralCheck, DriverInv, DriverTypeOK
<1>2. \A k \in 1..pos : fdes[k].at # fdes[pos + 1].at
  <2>1. /\ Len(fdes) <= Len(addrs) /\ \A k \in 1..Len(fdes) : fdes[k].at = addrs[k]
        /\ \A k, l \in 1..Len(addrs) : k < l => addrs[k] < addrs[l]
        /\ addrs \in Seq(1..Len(binary.section))
    BY DEF DriverInv, DriverTypeOK, AllRawsRead, AllEnumerated
  <2> TAKE k \in 1..pos
  <2>2. k \in 1..Len(fdes) /\ k \in 1..Len(addrs) /\ pos + 1 \in 1..Len(addrs) /\ k < pos + 1
    BY <1>1, <2>1
  <2>3. addrs[k] < addrs[pos + 1] /\ addrs[k] \in Nat /\ addrs[pos + 1] \in Nat
    BY <2>1, <2>2
  <2> QED BY <1>1, <2>1, <2>2, <2>3
<1>3. /\ \A i, j \in 1..Len(checkable) : i # j => checkable[i].at # checkable[j].at
      /\ Agree(results)
      /\ \A r \in results : \E k \in 1..pos : r.at = fdes[k].at
      /\ \A i \in 1..Len(checkable) : \E k \in 1..pos : checkable[i].at = fdes[k].at
      /\ \A r \in results : \A i \in 1..Len(checkable) : r.at # checkable[i].at
  BY <1>1 DEF OneResultEach
<1>4. PICK raw : raw = fdes[pos + 1]
  OBVIOUS
<1>5. /\ \A r \in results : r.at # raw.at
      /\ \A i \in 1..Len(checkable) : checkable[i].at # raw.at
  BY <1>2, <1>3, <1>4
<1>6. /\ ~AfterSifting' /\ phase' \notin {"uncovered", "filters", "check"}
  BY <1>1 DEF AfterSifting, Exited
<1>7. 1..pos \subseteq 1..(pos + 1) /\ pos + 1 \in 1..(pos + 1)
  BY <1>1
<1>8. CASE Structural(raw) = {}
  <2>1. checkable' = Append(checkable, raw) /\ results' = results
    BY <1>4, <1>8 DEF StructuralCheck
  <2>2. /\ Len(checkable') = Len(checkable) + 1 /\ Len(checkable) \in Nat
        /\ checkable'[Len(checkable) + 1] = raw
        /\ \A i \in 1..Len(checkable) : checkable'[i] = checkable[i]
    <3>1. raw \in Raws
      BY <1>1, <1>4
    <3> QED BY <1>1, <2>1, <3>1, Appended
  <2>3. \A i \in 1..Len(checkable') : i \in 1..Len(checkable) \/ i = Len(checkable) + 1
    BY <2>2
  <2>4. \A i, j \in 1..Len(checkable') : i # j => checkable'[i].at # checkable'[j].at
    BY <1>3, <1>5, <2>2, <2>3
  <2>5. \A i \in 1..Len(checkable') : \E k \in 1..(pos + 1) : checkable'[i].at = fdes[k].at
    BY <1>3, <1>4, <1>7, <2>2, <2>3
  <2>6. \A r \in results' : \A i \in 1..Len(checkable') : r.at # checkable'[i].at
    BY <1>3, <1>5, <2>1, <2>2, <2>3
  <2>7. Agree(results') /\ \A r \in results' : \E k \in 1..(pos + 1) : r.at = fdes[k].at
    BY <1>3, <1>7, <2>1
  <2> QED BY <1>1, <1>6, <2>4, <2>5, <2>6, <2>7 DEF OneResultEach
<1>9. CASE Structural(raw) # {}
  <2>1. checkable' = checkable
    BY <1>4, <1>9 DEF StructuralCheck
  <2>2. PICK v : Structural(raw) = {v}
    BY <1>9, Zenon DEF Structural
  <2>3. results' = results \cup {FDEResult("structure", raw.at, raw.range, w) : w \in {v}}
    BY <1>4, <1>9, <2>2 DEF StructuralCheck
  <2>a. PICK new : new = FDEResult("structure", raw.at, raw.range, v)
    OBVIOUS
  <2>4. results' = results \cup {new} /\ new.at = raw.at
    BY <2>3, <2>a DEF FDEResult
  <2>5. Agree(results')
    BY <1>3, <1>5, <2>4 DEF Agree
  <2>6. \A r \in results' : \E k \in 1..(pos + 1) : r.at = fdes[k].at
    BY <1>3, <1>4, <1>7, <2>4
  <2>7. \A i \in 1..Len(checkable') : \E k \in 1..(pos + 1) : checkable'[i].at = fdes[k].at
    BY <1>3, <1>7, <2>1
  <2>8. \A r \in results' : \A i \in 1..Len(checkable') : r.at # checkable'[i].at
    BY <1>3, <1>5, <2>1, <2>4
  <2> QED BY <1>1, <1>3, <1>6, <2>1, <2>5, <2>6, <2>7, <2>8 DEF OneResultEach
<1> QED BY <1>8, <1>9

(* Without overlaps no stage answers an FDE that has been answered.        *)
LEMMA OneResultKeeps == ASSUME DriverInv, OneResultEach, Next PROVE OneResultEach'
<1> USE DEF Exited, kExitFailure, AfterSifting
<1>0. /\ pos \in Nat /\ checkable \in Seq(Raws) /\ Len(checkable) \in Nat
      /\ \A i \in 1..Len(checkable) : checkable[i].at # 0
  <2>1. pos \in Nat /\ checkable \in Seq(Raws)
    BY DEF DriverInv, DriverTypeOK
  <2>2. Len(checkable) \in Nat /\ \A i \in 1..Len(checkable) : checkable[i] \in Raws
    BY <2>1
  <2>3. \A raw \in Raws : raw.at # 0
    BY DEF Raws
  <2> QED BY <2>1, <2>2, <2>3
<1>1. CASE Open \/ EnumerateRecord \/ EnumerateStops \/ ReadFDE \/ AllRead
  <2>1. checkable' = <<>> /\ results' = {} /\ ~AfterSifting' /\ phase' \notin {"uncovered", "filters", "check"}
    BY <1>1 DEF Open, EnumerateRecord, EnumerateStops, ReadFDE, AllRead, Proceed, Return, DriverInv, AllSifted
  <2> QED BY <2>1 DEF OneResultEach, Agree
<1>2. CASE StructuralCheck
  BY <1>2, StructuralOnce
<1>3. CASE OverlapCheck
  <2>1. phase = "structure" /\ phase' = "uncovered"
    BY <1>3 DEF OverlapCheck, Proceed
  <2>2. checkable' = checkable /\ (SomeOverlap' <=> SomeOverlap) /\ (~SomeOverlap => results' = results)
    BY <1>3, OverlapStep
  <2> QED BY <2>1, <2>2 DEF OneResultEach
<1>4. CASE UncoveredCheck
  <2>1. phase = "uncovered" /\ phase' = "filters"
    BY <1>4 DEF UncoveredCheck, Proceed
  <2>2. checkable' = checkable /\ (SomeOverlap' <=> SomeOverlap)
    BY <2>1, ListStays
  <2>3. \A coverage : \A r \in CheckUncoveredSymbols(coverage) : r.at = 0
    BY DEF CheckUncoveredSymbols, FDEResult
  <2>4. \A r \in results' : r \in results \/ r.at = 0
    BY <1>4, <2>3 DEF UncoveredCheck
  <2>5. Agree(results) => Agree(results')
    BY <2>4 DEF Agree
  <2> QED BY <1>0, <2>1, <2>2, <2>4, <2>5 DEF OneResultEach
<1>5. CASE ParseFilters
  <2>1. /\ phase = "filters" /\ results' = results
        /\ phase' = "exited" \/ phase' = "inspect" \/ (phase' = "check" /\ pos' = 0)
    BY <1>5 DEF ParseFilters, Proceed, Return
  <2>2. checkable' = checkable /\ (SomeOverlap' <=> SomeOverlap)
    BY <2>1, ListStays
  <2>3. ~SomeOverlap => Agree(results) /\ \A r \in results : \A i \in 1..Len(checkable) : r.at # checkable[i].at
    BY <2>1 DEF OneResultEach
  <2>4. \A i, j \in 1..Len(checkable') : i # j => checkable'[i].at # checkable'[j].at
    BY <2>2 DEF OneResultEach
  <2> QED BY <1>0, <2>1, <2>2, <2>3, <2>4 DEF OneResultEach
<1>6. CASE Inspect \/ Report
  <2>1. phase \in {"inspect", "check"} /\ phase' = "exited" /\ results' = results
    BY <1>6, Zenon DEF Inspect, Report, Return
  <2>2. checkable' = checkable /\ (SomeOverlap' <=> SomeOverlap)
    BY <2>1, ListStays
  <2> QED BY <2>1, <2>2 DEF OneResultEach
<1>7. CASE CheckFDE
  <2>1. /\ phase = "check" /\ phase' = "check" /\ pos' = pos + 1 /\ pos + 1 \in 1..Len(checkable)
    BY <1>0, <1>7 DEF CheckFDE
  <2>2. checkable' = checkable /\ (SomeOverlap' <=> SomeOverlap)
    BY <2>1, ListStays
  <2>3. PICK raw : raw = checkable[pos + 1]
    OBVIOUS
  <2>4. \E v : results' = results \/ results' = results \cup {FDEResult("check", raw.at, raw.range, v)}
    BY <1>7, <2>3 DEF CheckFDE
  <2>5. PICK new : new.at = raw.at /\ (results' = results \/ results' = results \cup {new})
    BY <2>4 DEF FDEResult
  <2>6. \A i, j \in 1..Len(checkable) : i # j => checkable[i].at # checkable[j].at
    BY DEF OneResultEach
  <2>7. ASSUME ~SomeOverlap
        PROVE  Agree(results') /\ \A r \in results' : \A i \in (pos + 2)..Len(checkable) : r.at # checkable[i].at
    <3>1. Agree(results) /\ \A r \in results : \A i \in (pos + 1)..Len(checkable) : r.at # checkable[i].at
      BY <2>1, <2>7 DEF OneResultEach
    <3>2. \A r \in results : r.at # raw.at
      BY <1>0, <2>1, <2>3, <3>1
    <3>3. \A i \in (pos + 2)..Len(checkable) : i \in (pos + 1)..Len(checkable) /\ i \in 1..Len(checkable) /\ i # pos + 1
      BY <1>0
    <3>4. \A i \in (pos + 2)..Len(checkable) : checkable[i].at # raw.at
      BY <2>1, <2>3, <2>6, <3>3
    <3>5. Agree(results')
      BY <2>5, <3>1, <3>2 DEF Agree
    <3> QED BY <2>5, <3>1, <3>3, <3>4, <3>5
  <2>8. ~SomeOverlap' => \A r \in results' : \A i \in (pos' + 1)..Len(checkable') : r.at # checkable'[i].at
    BY <1>0, <2>1, <2>2, <2>7
  <2> QED BY <2>1, <2>2, <2>6, <2>7, <2>8 DEF OneResultEach
<1> QED BY <1>1, <1>2, <1>3, <1>4, <1>5, <1>6, <1>7 DEF Next

(* An overlap is found by comparing neighbours only, in any order of the   *)
(* FDEs that begin together; it decides the exit code, and without one no  *)
(* FDE has two results: OverlapsDecideTheExit, for every section.          *)
THEOREM OverlapsDecide == Spec => []OverlapsDecideTheExit
<1> DEFINE Inv == DriverInv /\ OneResultEach /\ OverlapsSeen
<1>1. Init => Inv
  <2>1. Init => OneResultEach
    BY DEF Init, OneResultEach, AfterSifting, Exited
  <2>2. Init => OverlapsSeen
    BY DEF Init, OverlapsSeen, AfterSifting, Exited
  <2> QED BY <2>1, <2>2, DriverInvInit
<1>2. DriverInv' /\ Inv /\ [Next]_vars => Inv'
  <2>1. CASE UNCHANGED vars
    <3> USE <2>1 DEF vars, Exited, AfterSifting, SomeOverlap, Overlap
    <3>1. OneResultEach => OneResultEach'
      BY DEF OneResultEach, Agree
    <3>2. OverlapsSeen => OverlapsSeen'
      BY DEF OverlapsSeen, Some
    <3> QED BY <3>1, <3>2
  <2> QED BY <2>1, OneResultKeeps, OverlapsSeenKeeps
<1>3. Inv => OverlapsDecideTheExit
  <2>1. ASSUME Inv, Exited, SomeOverlap, ~flags.dump_cfi, ~flags.inspect PROVE exit_code = kExitMismatch
    <3>1. exit_code = ExitCode(results)
      BY <2>1 DEF DriverInv, AllChecked
    <3>2. Some(results, "MISMATCH")
      BY <2>1 DEF OverlapsSeen, AfterSifting
    <3> QED BY <3>1, <3>2 DEF ExitCode
  <2>2. ASSUME Inv, Exited, ~SomeOverlap, NEW at \in Listed, NEW r \in ResultsOf(at), NEW s \in ResultsOf(at) PROVE r = s
    <3>1. Agree(results)
      BY <2>2 DEF OneResultEach, AfterSifting
    <3>2. at # 0
      BY DEF Listed, FDERecords
    <3> QED BY <3>1, <3>2 DEF Agree, ResultsOf
  <2> QED BY <2>1, <2>2, Zenon DEF OverlapsDecideTheExit
<1> QED BY <1>1, <1>2, <1>3, DriverInvariant, PTL DEF Spec
=============================================================================
