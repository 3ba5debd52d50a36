------------------------------- MODULE Driver -------------------------------
(***************************************************************************)
(* A run of the tool on one binary (unwind-check.cc, with EnumerateFDEs    *)
(* and CheckUncoveredSymbols): list the FDE records, read each, check      *)
(* their ranges, check each FDE, exit.                                     *)
(*                                                                         *)
(* A binary is a record                                                    *)
(*   opens    the ELF file, its .eh_frame and the disassembler are there   *)
(*   section  sequence of .eh_frame records [kind, range]: kind is "cie",  *)
(*            "fde", "undecodable" (an FDE ReadFDE throws on), "end" (the  *)
(*            terminator) or "bad" (a length EnumerateFDEs throws on)      *)
(*   exec     executable segments, plt: PLT sections, as ranges            *)
(*   symbols  sequence of [vaddr, size], sorted by vaddr                   *)
(* and the flags are a record                                              *)
(*   report_uncovered_symbols, full, dump_cfi, inspect                     *)
(*   well_formed  --function and --pc parse                                *)
(*   pc           {} or {the --pc value}                                   *)
(*   named        {} or {the set of pc_begins whose name --function finds} *)
(* Invocations are the pairs <<binary, flags>> the tool is run with.  What *)
(* a checker answers about an FDE is left open.                            *)
(***************************************************************************)
EXTENDS CoverageCheck, Functions

CONSTANT Invocations

Addresses(range) == range[1] \in Int /\ range[2] \in Int

ASSUME InvocationsAssumption ==
  \A run \in Invocations :
    /\ Len(run[1].section) \in Nat
    /\ \A i \in 1..Len(run[1].section) : run[1].section[i].kind = "fde" => Addresses(run[1].section[i].range)

VARIABLES
  binary, flags,
  phase,            \* where Run is
  pos,              \* records of the section, FDEs or checkable FDEs passed in this phase
  addrs,            \* the FDE records EnumerateFDEs called back with, as positions
  enumerate_error,
  fdes,             \* RawFDEs: [at, range], range <<>> when it did not decode
  results,          \* set of FDEResults: [by, at, range, verdict], by the stage that gave it; at is 0 for a symbol
  checkable,        \* the RawFDEs left for the checkers
  exit_code         \* -1 while running

vars == <<binary, flags, phase, pos, addrs, enumerate_error, fdes, results, checkable, exit_code>>

kExitBlessed == 0
kExitMismatch == 1
kExitReview == 2
kExitFailure == 3

FDEResult(stage, at, range, v) == [by |-> stage, at |-> at, range |-> range, verdict |-> v]

Init ==
  /\ \E run \in Invocations : binary = run[1] /\ flags = run[2]
  /\ phase = "open"
  /\ pos = 0
  /\ addrs = <<>>
  /\ enumerate_error = FALSE
  /\ fdes = <<>>
  /\ results = {}
  /\ checkable = <<>>
  /\ exit_code = -1

Return(code) == phase' = "exited" /\ exit_code' = code

Proceed(p) == phase' = p /\ pos' = 0 /\ UNCHANGED exit_code

-----------------------------------------------------------------------------
(* ELFImage queries.                                                       *)

SegContains(seg, range) == seg[1] <= range[1] /\ range[2] <= seg[2]

IsExecutable(range) == \E seg \in binary.exec : SegContains(seg, range)

InPLT(range) == \E sec \in binary.plt : SegContains(sec, range)

-----------------------------------------------------------------------------
Open ==
  /\ phase = "open"
  /\ IF binary.opens THEN Proceed("enumerate") ELSE Return(kExitFailure) /\ UNCHANGED pos
  /\ UNCHANGED <<binary, flags, addrs, enumerate_error, fdes, results, checkable>>

(* Faulty variant: a CIE is not stepped over.                              *)
EnumerateRecordStuck ==
  /\ phase = "enumerate"
  /\ pos < Len(binary.section)
  /\ binary.section[pos + 1].kind \in {"fde", "undecodable"}
  /\ addrs' = Append(addrs, pos + 1)
  /\ pos' = pos + 1
  /\ UNCHANGED <<binary, flags, phase, enumerate_error, fdes, results, checkable, exit_code>>

(* EnumerateFDEs, one record.                                              *)
EnumerateRecord ==
  /\ phase = "enumerate"
  /\ pos < Len(binary.section)
  /\ binary.section[pos + 1].kind \in {"cie", "fde", "undecodable"}
  /\ addrs' = IF binary.section[pos + 1].kind = "cie" THEN addrs ELSE Append(addrs, pos + 1)
  /\ pos' = pos + 1
  /\ UNCHANGED <<binary, flags, phase, enumerate_error, fdes, results, checkable, exit_code>>

(* The end of the section, its terminator, or a record that is not one.    *)
EnumerateStops ==
  /\ phase = "enumerate"
  /\ pos < Len(binary.section) => binary.section[pos + 1].kind \in {"end", "bad"}
  /\ enumerate_error' = (pos < Len(binary.section) /\ binary.section[pos + 1].kind = "bad")
  /\ Proceed("read")
  /\ UNCHANGED <<binary, flags, addrs, fdes, results, checkable>>

(* The rest of ReadAllFDEs.                                                *)
ReadFDE ==
  /\ phase = "read"
  /\ pos < Len(addrs)
  /\ LET record == binary.section[addrs[pos + 1]] IN
       fdes' = Append(fdes, [at |-> addrs[pos + 1],
                             range |-> IF record.kind = "fde" THEN record.range ELSE <<>>])
  /\ pos' = pos + 1
  /\ UNCHANGED <<binary, flags, phase, addrs, enumerate_error, results, checkable, exit_code>>

AllRead ==
  /\ phase = "read"
  /\ pos = Len(addrs)
  /\ IF fdes = <<>> /\ enumerate_error THEN Return(kExitFailure) /\ UNCHANGED pos
                                       ELSE Proceed("structure")
  /\ UNCHANGED <<binary, flags, addrs, enumerate_error, fdes, results, checkable>>

-----------------------------------------------------------------------------
(* RunStructuralChecks: the verdict on one FDE, or none.                   *)
Structural(raw) ==
  IF raw.range = <<>> THEN {"REVIEW"}
  ELSE IF raw.range[2] <= raw.range[1] THEN {"MISMATCH"}
  ELSE IF ~IsExecutable(raw.range) THEN {"MISMATCH"}
  ELSE IF InPLT(raw.range) THEN {"BLESSED"}
  ELSE {}

StructuralCheck ==
  /\ phase = "structure"
  /\ pos < Len(fdes)
  /\ LET raw == fdes[pos + 1] IN
       IF Structural(raw) = {}
       THEN checkable' = Append(checkable, raw) /\ UNCHANGED results
       ELSE /\ results' = results \cup {FDEResult("structure", raw.at, raw.range, v) : v \in Structural(raw)}
            /\ UNCHANGED checkable
  /\ pos' = pos + 1
  /\ UNCHANGED <<binary, flags, phase, addrs, enumerate_error, fdes, exit_code>>

(* Neighbours in order of pc_begin.  FDEs that begin together may come in  *)
(* either order.                                                           *)
Orders(raws) ==
  {o \in Bijection(1..Len(raws), 1..Len(raws)) :
     \A i \in 1..(Len(raws) - 1) : raws[o[i]].range[1] <= raws[o[i + 1]].range[1]}

(* Faulty variant: ranges that only touch are taken to overlap.            *)
OverlapResultsTouching(sorted) ==
  {FDEResult("overlap", sorted[i].at, sorted[i].range, "MISMATCH") :
     i \in {k \in 2..Len(sorted) : sorted[k].range[1] <= sorted[k - 1].range[2]}}

OverlapResults(sorted) ==
  {FDEResult("overlap", sorted[i].at, sorted[i].range, "MISMATCH") :
     i \in {k \in 2..Len(sorted) : sorted[k].range[1] < sorted[k - 1].range[2]}}

OverlapCheck ==
  /\ phase = "structure"
  /\ pos = Len(fdes)
  /\ \E o \in Orders(checkable) :
       results' = results \cup OverlapResults([i \in 1..Len(checkable) |-> checkable[o[i]]])
  /\ Proceed("uncovered")
  /\ UNCHANGED <<binary, flags, addrs, enumerate_error, fdes, checkable>>

-----------------------------------------------------------------------------
(* CheckUncoveredSymbols                                                   *)
SymbolRange(sym) == <<sym.vaddr, sym.vaddr + sym.size>>

Sized(i) == binary.symbols[i].size # 0

(* The first sized symbol of each address is looked at.                    *)
Flagged ==
  {i \in 1..Len(binary.symbols) :
     /\ Sized(i)
     /\ \A j \in 1..(i - 1) : ~(Sized(j) /\ binary.symbols[j].vaddr = binary.symbols[i].vaddr)}

FDERanges ==
  LET nonempty == SelectSeq(fdes, LAMBDA raw : raw.range # <<>> /\ raw.range[2] > raw.range[1])
  IN  [i \in 1..Len(nonempty) |-> nonempty[i].range]

IsUncovered(sym, coverage) ==
  LET range == SymbolRange(sym) IN
  /\ IsExecutable(range) /\ ~InPLT(range)
  /\ UncoveredBytes(range[1], range[2], coverage) # 0

CheckUncoveredSymbols(coverage) ==
  {FDEResult("symbol", 0, SymbolRange(binary.symbols[i]), "REVIEW") :
     i \in {k \in Flagged : IsUncovered(binary.symbols[k], coverage)}}

UncoveredCheck ==
  /\ phase = "uncovered"
  /\ \E coverage \in {MergeRanges(FDERanges)} :
       results' = IF flags.report_uncovered_symbols THEN results \cup CheckUncoveredSymbols(coverage) ELSE results
  /\ Proceed("filters")
  /\ UNCHANGED <<binary, flags, addrs, enumerate_error, fdes, checkable>>

ParseFilters ==
  /\ phase = "filters"
  /\ IF ~flags.well_formed THEN Return(kExitFailure) /\ UNCHANGED pos
     ELSE Proceed(IF flags.inspect THEN "inspect" ELSE "check")
  /\ UNCHANGED <<binary, flags, addrs, enumerate_error, fdes, results, checkable>>

-----------------------------------------------------------------------------
(* Summarize, as far as the exit code asks.                                *)
Some(rs, v) == \E r \in rs : r.verdict = v

(* Faulty variant: only plain reviews count.                               *)
ExitCodeLight(rs) ==
  IF Some(rs, "MISMATCH") THEN kExitMismatch
  ELSE IF Some(rs, "REVIEW") THEN kExitReview
  ELSE kExitBlessed

(* The end of Run.                                                         *)
ExitCode(rs) ==
  IF Some(rs, "MISMATCH") THEN kExitMismatch
  ELSE IF Some(rs, "REVIEW") \/ Some(rs, "REVIEW-LIGHT") THEN kExitReview
  ELSE kExitBlessed

FullVerdicts == {"BLESSED", "REVIEW-LIGHT", "REVIEW", "MISMATCH"}

LightVerdicts == {"BLESSED", "REVIEW", "MISMATCH"}

Covers(raw, pc) == raw.range[1] <= pc /\ pc < raw.range[2]

(* --inspect: the first checkable FDE at --pc, by the full checker; the    *)
(* pipeline of other processes may fail.                                   *)
Inspect ==
  /\ phase = "inspect"
  /\ IF \E pc \in flags.pc : \E i \in 1..Len(checkable) : Covers(checkable[i], pc)
     THEN \/ \E v \in FullVerdicts : Return(ExitCode({FDEResult("inspect", 1, <<>>, v)}))
          \/ Return(kExitFailure)
     ELSE Return(kExitFailure)
  /\ UNCHANGED <<binary, flags, pos, addrs, enumerate_error, fdes, results, checkable>>

Selected(raw) ==
  /\ \A pc \in flags.pc : Covers(raw, pc)
  /\ \A names \in flags.named : raw.range[1] \in names

(* The loop over checkable: filtered out, dumped, checked, or aborted by   *)
(* an EHFrameError, which is a REVIEW.                                     *)
CheckFDE ==
  /\ phase = "check"
  /\ pos < Len(checkable)
  /\ LET raw == checkable[pos + 1] IN
       IF ~Selected(raw) \/ flags.dump_cfi THEN UNCHANGED results
       ELSE \E v \in IF flags.full THEN FullVerdicts ELSE LightVerdicts :
              results' = results \cup {FDEResult("check", raw.at, raw.range, v)}
  /\ pos' = pos + 1
  /\ UNCHANGED <<binary, flags, phase, addrs, enumerate_error, fdes, checkable, exit_code>>

Report ==
  /\ phase = "check"
  /\ pos = Len(checkable)
  /\ Return(IF flags.dump_cfi THEN kExitBlessed ELSE ExitCode(results))
  /\ UNCHANGED <<binary, flags, pos, addrs, enumerate_error, fdes, results, checkable>>

Next ==
  \/ Open
  \/ EnumerateRecord
  \/ EnumerateStops
  \/ ReadFDE
  \/ AllRead
  \/ StructuralCheck
  \/ OverlapCheck
  \/ UncoveredCheck
  \/ ParseFilters
  \/ Inspect
  \/ CheckFDE
  \/ Report

Spec == Init /\ [][Next]_vars

(* The tool is one thread that reads a file and terminates.                *)
FairSpec == Spec /\ WF_vars(Next)

-----------------------------------------------------------------------------
(* A run that reports on the whole binary.                                 *)
Plain == ~flags.dump_cfi /\ ~flags.inspect /\ flags.pc = {} /\ flags.named = {}

Exited == phase = "exited" /\ exit_code # kExitFailure

FDERecords == {i \in 1..Len(binary.section) : binary.section[i].kind \in {"fde", "undecodable"}}

Terminators == {i \in 1..Len(binary.section) : binary.section[i].kind = "end"}

(* The FDEs of the section: those before the terminator.                   *)
Listed == {i \in FDERecords : \A t \in Terminators : i < t}

ResultsOf(at) == {r \in results : r.at = at}

(* Every FDE record of a section that could be listed gets an answer, and  *)
(* exit code 0 means that every answer was BLESSED: no record is lost      *)
(* between EnumerateFDEs, ReadAllFDEs, RunStructuralChecks and the loop    *)
(* over checkable (README: 0 all blessed).                                 *)
ZeroMeansAllBlessed ==
  Exited /\ Plain /\ ~enumerate_error =>
    /\ \A at \in Listed : ResultsOf(at) # {}
    /\ exit_code = kExitBlessed => \A at \in Listed : \A r \in ResultsOf(at) : r.verdict = "BLESSED"

(* Two checkable FDEs overlap exactly if RunStructuralChecks gives some    *)
(* FDE a second result, and then the tool exits with 1, whatever the       *)
(* filters and whatever the order of FDEs that begin together.             *)
Overlap(i, j) ==
  /\ i # j
  /\ checkable[i].range[1] < checkable[j].range[2]
  /\ checkable[j].range[1] < checkable[i].range[2]

SomeOverlap == \E i, j \in 1..Len(checkable) : Overlap(i, j)

OverlapsDecideTheExit ==
  /\ Exited /\ SomeOverlap /\ ~flags.dump_cfi /\ ~flags.inspect => exit_code = kExitMismatch
  /\ Exited /\ Plain /\ ~SomeOverlap => \A at \in Listed : \A r, s \in ResultsOf(at) : r = s

(* A symbol is reported exactly when some byte of it lies outside every    *)
(* FDE, whatever the order and the overlaps of the FDEs (MergeRanges,      *)
(* UncoveredBytes).                                                        *)
UncoveredIsExact ==
  phase \notin {"open", "enumerate", "read", "structure", "uncovered"} /\ flags.report_uncovered_symbols =>
    \A i \in Flagged :
      LET range == SymbolRange(binary.symbols[i]) IN
      (\E r \in ResultsOf(0) : r.range = range)
        <=> /\ IsExecutable(range) /\ ~InPLT(range)
            /\ BytesOutside(range[1], range[2], FDERanges) # {}

(* Every run ends with an exit code.                                       *)
Exits == <>(phase = "exited")

(* README: exit code 0 means all blessed.                                  *)
ZeroMeansWholeSection ==
  Exited /\ Plain /\ exit_code = kExitBlessed =>
    \A at \in Listed : \E r \in ResultsOf(at) : r.verdict = "BLESSED"
=============================================================================
