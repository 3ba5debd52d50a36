------------------------------- MODULE Report -------------------------------
(***************************************************************************)
(* PrintReport (report.cc) with the Symbolizer (symbolizer.cc): collect    *)
(* the addresses of everything to be listed, have addr2line resolve them   *)
(* in batches over a pipe, print.                                          *)
(*                                                                         *)
(* A report is a record                                                    *)
(*   results     sequence of [verdict, pc_begin, findings, tables]:        *)
(*               findings is a sequence of pcs (0: of the whole FDE),      *)
(*               tables one of [pc, targets]                               *)
(*   options     [show_blessed, summary_only, only_mismatch, only_review]  *)
(*   mode        "kOff", "kAuto" or "kExplicit"                            *)
(*   tools       the tools that exist; "given" is the path of --addr2line  *)
(*   debug_info  the binary has debug info or points to it                 *)
(*   symbols     sequence of [vaddr, size], by vaddr                       *)
(*   answers     address -> [name, line], what addr2line knows (external): *)
(*               "known", "long" (known, and more than fgets' buffer) or   *)
(*               "??"                                                      *)
(* A line on the pipe is [of, field, text], text being what one fgets      *)
(* returns of it: "known", "??", or "part" of a long line or of the one    *)
(* addr2line died in.                                                      *)
(***************************************************************************)
EXTENDS Subprocess

CONSTANTS
  Reports,
  kBatchSize     \* 4096

VARIABLES
  report,
  use_addr2line,
  queried,
  pending,       \* addresses of this Prepare, sorted
  start,         \* first one of the batch
  at,            \* the one whose lines are read
  fields,        \* its lines so far
  source_lines, debug_names,     \* address -> line
  to_write,      \* addr2line's output still to come
  step,          \* "collect", "batch", "spawn", "read", "wait", "print", "done"
  printed,       \* what was printed: [addr, kind "name" or "line", text]
  sound          \* history: addr2line has answered every address it was given

symbolizer_vars == <<use_addr2line, queried, pending, start, at, fields, source_lines, debug_names, to_write>>

report_vars == <<report, symbolizer_vars, step, printed, sound>>

-----------------------------------------------------------------------------
(* Symbolizer::Symbolizer                                                  *)

PickToolPath(r) ==
  IF r.mode = "kExplicit" THEN "given"
  ELSE IF r.mode = "kAuto" /\ "llvm-addr2line" \notin r.tools /\ "addr2line" \in r.tools THEN "addr2line"
  ELSE "llvm-addr2line"

UseAddr2Line(r) ==
  CASE r.mode = "kOff" -> FALSE
    [] r.mode = "kAuto" -> r.debug_info /\ PickToolPath(r) \in r.tools
    [] r.mode = "kExplicit" -> PickToolPath(r) \in r.tools

ReportInit ==
  /\ ProcessInit
  /\ report \in Reports
  /\ use_addr2line = UseAddr2Line(report)
  /\ queried = {}
  /\ pending = <<>>
  /\ start = 0 /\ at = 0
  /\ fields = <<>>
  /\ source_lines = <<>> /\ debug_names = <<>>
  /\ to_write = <<>>
  /\ step = "collect"
  /\ printed = {}
  /\ sound = TRUE

-----------------------------------------------------------------------------
(* PrintReport, until Prepare is called.                                   *)

ShouldList(verdict, o) ==
  IF verdict = "BLESSED" THEN o.show_blessed
  ELSE \/ ~o.only_mismatch /\ ~o.only_review
       \/ o.only_mismatch /\ verdict = "MISMATCH"
       \/ o.only_review /\ verdict \in {"REVIEW", "REVIEW-LIGHT"}

ListedResults ==
  IF report.options.summary_only THEN {}
  ELSE {i \in 1..Len(report.results) : ShouldList(report.results[i].verdict, report.options)}

TableAddrs(r) == UNION {{t.pc} \cup t.targets : t \in Range(r.tables)}

(* Faulty variant: the targets of guessed tables are not looked up.        *)
InterestingShort(r) == {r.pc_begin} \cup Range(r.findings) \cup {t.pc : t \in Range(r.tables)}

Interesting(r) == {r.pc_begin} \cup Range(r.findings) \cup TableAddrs(r)

Collect ==
  /\ step = "collect"
  /\ LET addresses == UNION {Interesting(report.results[i]) : i \in ListedResults}
         fresh == IF use_addr2line THEN addresses \ queried ELSE {}
     IN  /\ queried' = queried \cup fresh
         /\ pending' = SetToSortSeq(fresh, <)
  /\ start' = 0
  /\ step' = "batch"
  /\ UNCHANGED <<report, use_addr2line, at, fields, source_lines, debug_names, to_write, printed, sound, process_vars>>

-----------------------------------------------------------------------------
(* Prepare                                                                 *)

BatchEnd == IF start + kBatchSize < Len(pending) THEN start + kBatchSize ELSE Len(pending)

BeginBatch ==
  /\ step = "batch" /\ start < Len(pending)
  /\ SpawnBegins
  /\ step' = "spawn"
  /\ UNCHANGED <<report, symbolizer_vars, printed, sound>>

(* What addr2line prints (external): two lines per address, in order.      *)
Fgets(addr, field, text) ==
  IF text = "long" THEN <<[of |-> addr, field |-> field, text |-> "part"], [of |-> addr, field |-> field, text |-> "part"]>>
  ELSE <<[of |-> addr, field |-> field, text |-> text]>>

Output(addrs) ==
  FoldLeft(LAMBDA out, a : out \o Fgets(a, "name", report.answers[a].name) \o Fgets(a, "line", report.answers[a].line),
           <<>>, addrs)

SpawnStep ==
  /\ step = "spawn"
  /\ SpawnProcess({"out"})
  /\ to_write' = IF spawn = "fork" THEN Output(SubSeq(pending, start + 1, BatchEnd)) ELSE to_write
  /\ UNCHANGED <<report, use_addr2line, queried, pending, start, at, fields, source_lines, debug_names, step, printed, sound>>

SpawnReturns ==
  /\ step = "spawn" /\ spawn \in {"ok", "failed"}
  /\ spawn' = "idle"
  /\ IF spawn = "ok"
     THEN /\ step' = "read"
          /\ at' = start + 1
          /\ UNCHANGED <<use_addr2line, sound>>
     ELSE /\ step' = "print"
          /\ use_addr2line' = FALSE
          /\ sound' = FALSE
          /\ UNCHANGED at
  /\ fields' = <<>>
  /\ UNCHANGED <<report, queried, pending, start, source_lines, debug_names, to_write, printed>>
  /\ UNCHANGED <<fds, child, in_pipe, out_pipe>>

(* A name counts only when a source line came with it.                     *)
Known(text) == text # "??"

Resolves(both) == Known(both[2].text)

(* One fgets of the loop, and after the second the two maps.  At the end   *)
(* of the output the batch is over.                                        *)
ReadField ==
  /\ step = "read" /\ at <= BatchEnd
  /\ IF out_pipe # <<>>
     THEN LET both == Append(fields, Head(out_pipe)) IN
          /\ out_pipe' = Tail(out_pipe)
          /\ fields' = IF Len(both) = 2 THEN <<>> ELSE both
          /\ at' = IF Len(both) = 2 THEN at + 1 ELSE at
          /\ source_lines' = IF Len(both) = 2 /\ Resolves(both) THEN source_lines @@ (pending[at] :> both[2]) ELSE source_lines
          /\ debug_names' = IF Len(both) = 2 /\ Resolves(both) /\ Known(both[1].text)
                            THEN debug_names @@ (pending[at] :> both[1]) ELSE debug_names
          /\ UNCHANGED sound
     ELSE /\ ~ChildWrites
          /\ at' = BatchEnd + 1
          /\ sound' = FALSE
          /\ UNCHANGED <<out_pipe, fields, source_lines, debug_names>>
  /\ UNCHANGED <<report, use_addr2line, queried, pending, start, to_write, step, printed>>
  /\ UNCHANGED <<fds, spawn, child, in_pipe>>

(* Faulty variant: the pipe is closed only after the child has ended.      *)
ClosePipeLate ==
  /\ step = "read" /\ at = BatchEnd + 1
  /\ step' = "wait"
  /\ UNCHANGED <<report, symbolizer_vars, printed, sound, process_vars>>

(* fclose, whatever the child still has to say.                            *)
ClosePipe ==
  /\ step = "read" /\ at = BatchEnd + 1
  /\ fds' = fds \ {<<"out", "r">>}
  /\ step' = "wait"
  /\ UNCHANGED <<report, symbolizer_vars, printed, sound, spawn, child, in_pipe, out_pipe>>

Wait ==
  /\ step = "wait"
  /\ WaitForProcess
  /\ start' = start + kBatchSize
  /\ step' = "batch"
  /\ UNCHANGED <<report, use_addr2line, queried, pending, at, fields, source_lines, debug_names, to_write, printed, sound>>
  /\ UNCHANGED <<fds, spawn, in_pipe, out_pipe>>

Prepared ==
  /\ step = "batch" /\ start >= Len(pending)
  /\ step' = "print"
  /\ UNCHANGED <<report, symbolizer_vars, printed, sound, process_vars>>

-----------------------------------------------------------------------------
(* PrintOne                                                                *)

None == [of |-> 0, field |-> "none", text |-> "??"]

SourceLine(addr) == IF addr \in DOMAIN source_lines THEN source_lines[addr] ELSE None

DebugName(addr) == IF addr \in DOMAIN debug_names THEN debug_names[addr] ELSE None

(* The last symbol at or before the address, if it reaches that far.       *)
Name(addr) ==
  LET before == {i \in 1..Len(report.symbols) : report.symbols[i].vaddr <= addr}
      sym == report.symbols[Max(before)]
      holds == IF sym.size = 0 THEN sym.vaddr = addr ELSE addr - sym.vaddr < sym.size
  IN  IF before = {} THEN DebugName(addr)
      ELSE IF holds THEN [of |-> sym.vaddr, field |-> "symbol", text |-> "known"]
      ELSE DebugName(addr)

(* The addresses PrintOne gives a source line for.                         *)
Located(r) == (Range(r.findings) \ {0}) \cup TableAddrs(r)

PrintResults ==
  /\ step = "print"
  /\ printed' = UNION {
       {[addr |-> report.results[i].pc_begin, kind |-> "name", text |-> Name(report.results[i].pc_begin)]}
       \cup {[addr |-> a, kind |-> "line", text |-> SourceLine(a)] : a \in Located(report.results[i])} :
       i \in ListedResults}
  /\ step' = "done"
  /\ UNCHANGED <<report, symbolizer_vars, sound, process_vars>>

-----------------------------------------------------------------------------
(* addr2line (external).  It may die, and is killed by SIGPIPE when nobody *)
(* reads.                                                                  *)

Addr2LineWrites ==
  /\ child.state = "running" /\ spawn \notin {"in", "out", "fork"}
  /\ to_write # <<>> /\ ~NoReader
  /\ Len(out_pipe) < PipeCapacity
  /\ out_pipe' = Append(out_pipe, Head(to_write))
  /\ to_write' = Tail(to_write)
  /\ UNCHANGED <<report, use_addr2line, queried, pending, start, at, fields, source_lines, debug_names, step, printed, sound>>
  /\ UNCHANGED <<fds, spawn, child, in_pipe>>

Addr2LineEnds ==
  /\ \/ to_write = <<>> /\ ChildExits(0)
     \/ to_write # <<>> /\ NoReader /\ ChildExits(-1)
  /\ UNCHANGED report_vars

(* Its last line may be cut short.                                         *)
Addr2LineDies ==
  /\ child.state = "running"
  /\ child' = [state |-> "exited", status |-> 1]
  /\ \/ UNCHANGED out_pipe
     \/ /\ to_write # <<>> /\ Len(out_pipe) < PipeCapacity
        /\ out_pipe' = Append(out_pipe, [Head(to_write) EXCEPT !.text = "part"])
  /\ UNCHANGED <<report_vars, fds, spawn, in_pipe>>

-----------------------------------------------------------------------------
PrintReport ==
  \/ Collect
  \/ BeginBatch
  \/ SpawnStep
  \/ SpawnReturns
  \/ ReadField
  \/ ClosePipe
  \/ Wait
  \/ Prepared
  \/ PrintResults

Addr2Line ==
  \/ Addr2LineWrites
  \/ Addr2LineEnds

ReportNext ==
  \/ PrintReport
  \/ Addr2Line
  \/ Addr2LineDies

ReportSpec == ReportInit /\ [][ReportNext]_<<report_vars, process_vars>>

(* Lines fit into fgets' buffer.                                           *)
LinesFit == \A a \in DOMAIN report.answers : report.answers[a].name # "long" /\ report.answers[a].line # "long"

(* Every source line and every debug name that the report prints is the    *)
(* one addr2line gave for that very address, or the beginning of it, over  *)
(* all batches and whether or not a child died half way; a symbol that is  *)
(* printed reaches its address; and when every child answered in full,     *)
(* every known line is printed (Prepare's pairing of two lines per         *)
(* address, PrintReport's list of interesting addresses).  It holds while  *)
(* lines fit into the buffer.                                              *)
LinesBelongToAddresses ==
  step = "done" /\ LinesFit =>
    \A p \in printed :
      /\ p.kind = "line" /\ p.text # None => p.text.of = p.addr /\ p.text.field = "line"
      /\ p.text.field = "name" => p.text.of = p.addr /\ p.kind = "name"
      /\ p.text.field = "symbol" =>
           \E s \in Range(report.symbols) :
             s.vaddr = p.text.of /\ (p.addr = s.vaddr \/ p.addr \in s.vaddr..(s.vaddr + s.size - 1))
      /\ p.kind = "line" /\ sound /\ use_addr2line /\ report.answers[p.addr].line = "known" => p.text # None

(* When the report is done, no pipe is left open and no child unwaited     *)
(* for, on every path through SpawnProcess and Prepare.                    *)
ReportSettles == step = "done" => Settled

(* The report is always printed, however little of a child's output is     *)
(* read: the pipe is closed before the child is waited for.                *)
ReportEnds == <>(step = "done")
=============================================================================
