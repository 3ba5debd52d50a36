------------------------------- MODULE MCTool -------------------------------
(***************************************************************************)
(* Four machines that share no state, one per behaviour: the tool on small *)
(* binaries ("driver"), its report with addr2line ("report"), --inspect    *)
(* with inspect.rb ("inspect"), and the sweep ("sweep").                   *)
(***************************************************************************)
EXTENDS Driver, Sweep, Inspect, Report

CONSTANT Machines

-----------------------------------------------------------------------------
(* Small binaries.  Code lies at 1..7, with a PLT at 6..7; data at 9.      *)

Rec(k, range) == [kind |-> k, range |-> range]

(* FDEs that nest, overlap, touch, begin together, are empty, run          *)
(* backwards, lie in data or in the PLT, or do not decode.                 *)
FDERecs ==
  {Rec("fde", range) : range \in {<<1, 5>>, <<1, 2>>, <<2, 3>>, <<3, 3>>, <<4, 2>>, <<9, 10>>, <<6, 7>>}}
  \cup {Rec("undecodable", <<>>)}

OtherRecs == {Rec("cie", <<>>), Rec("end", <<>>), Rec("bad", <<>>)}

Binary(section, symbols) ==
  [opens |-> TRUE, section |-> section, symbols |-> symbols,
   exec |-> {<<1, 8>>}, plt |-> {<<6, 8>>}]

Sym(v, s) == [vaddr |-> v, size |-> s]

AllRecs == FDERecs \cup OtherRecs

Sections == UNION {[1..n -> AllRecs] : n \in 0..3}

Unopenable == [Binary(<<>>, <<>>) EXCEPT !.opens = FALSE]

WholeBinaries == {Binary(s, <<>>) : s \in Sections} \cup {Unopenable}

PlainFlags ==
  [report_uncovered_symbols |-> FALSE, full |-> FALSE, dump_cfi |-> FALSE, inspect |-> FALSE,
   well_formed |-> TRUE, pc |-> {}, named |-> {}]

WholeFlags ==
  {[PlainFlags EXCEPT !.full = TRUE],
   [PlainFlags EXCEPT !.pc = {1}],
   [PlainFlags EXCEPT !.named = {{2}}],
   [PlainFlags EXCEPT !.inspect = TRUE, !.pc = {2}],
   [PlainFlags EXCEPT !.dump_cfi = TRUE],
   [PlainFlags EXCEPT !.well_formed = FALSE]}

(* Coverage: up to three FDEs anywhere in 1..4, two symbols.               *)
Forward == {Rec("fde", range) : range \in {r \in (1..4) \X (2..5) : r[1] < r[2]}}

SymbolTables ==
  {<<Sym(v, n), Sym(w, m)>> : v \in {1, 2}, w \in {2, 4}, n \in {0, 1, 3}, m \in {1, 2}}

CoverageBinaries ==
  {Binary(s, t) : s \in UNION {[1..n -> Forward] : n \in 0..2}, t \in SymbolTables}
  \cup {Binary(s, <<Sym(1, n), Sym(2, 2)>>) : s \in [1..3 -> Forward], n \in {1, 3}}

CoverageFlags == {[PlainFlags EXCEPT !.report_uncovered_symbols = TRUE, !.named = {{}}]}

WholeInvocations == WholeBinaries \X WholeFlags

AllInvocations == WholeInvocations \cup (CoverageBinaries \X CoverageFlags)

-----------------------------------------------------------------------------
(* Reports on up to two results, over addresses 1..4.  Batches of two.     *)

Result(verdict, pc, findings, targets) ==
  [verdict |-> verdict, pc_begin |-> pc, findings |-> findings,
   tables |-> IF targets = {} THEN <<>> ELSE <<[pc |-> 3, targets |-> targets]>>]

ResultLists ==
  {<<>>,
   <<Result("MISMATCH", 1, <<2, 0>>, {})>>,
   <<Result("BLESSED", 2, <<>>, {}), Result("REVIEW-LIGHT", 1, <<2>>, {3, 4})>>}

ListOptions(blessed, summary, mismatch, review) ==
  [show_blessed |-> blessed, summary_only |-> summary, only_mismatch |-> mismatch, only_review |-> review]

MCOptions ==
  {ListOptions(FALSE, FALSE, FALSE, FALSE), ListOptions(TRUE, FALSE, TRUE, FALSE),
   ListOptions(FALSE, FALSE, FALSE, TRUE), ListOptions(FALSE, TRUE, FALSE, FALSE)}

Answer(n, line) == [name |-> n, line |-> line]

(* addr2line's answers by address; 0 is asked for a finding of a whole FDE.*)
AnswerSets ==
  {[a \in 0..4 |-> IF a = 0 THEN Answer("??", "??") ELSE Answer("known", "known")],
   [a \in 0..4 |-> IF a = 2 THEN Answer("??", "known") ELSE Answer("known", "??")],
   [a \in 0..4 |-> IF a \in {1, 2} THEN Answer("long", "long") ELSE Answer("known", "known")]}

SymbolLists == {<<>>, <<[vaddr |-> 1, size |-> 0], [vaddr |-> 2, size |-> 2]>>, <<[vaddr |-> 1, size |-> 1]>>}

MCReport(results_, options, answers, symbols) ==
  [results |-> results_, options |-> options, mode |-> "kAuto", tools |-> {"addr2line"}, debug_info |-> TRUE,
   symbols |-> symbols, answers |-> answers]

PlainReport == MCReport(<<Result("MISMATCH", 1, <<2>>, {})>>, ListOptions(FALSE, FALSE, FALSE, FALSE),
                        CHOOSE a \in AnswerSets : TRUE, <<>>)

MCReports ==
  {MCReport(r, o, a, s) : r \in ResultLists, o \in MCOptions, a \in AnswerSets, s \in SymbolLists}
  \cup {[PlainReport EXCEPT !.mode = m, !.tools = ts, !.debug_info = dbg] :
          m \in {"kOff", "kAuto", "kExplicit"},
          ts \in {{}, {"given"}, {"llvm-addr2line"}, {"llvm-addr2line", "addr2line"}}, dbg \in BOOLEAN}

-----------------------------------------------------------------------------
(* Sweeps: every way a check can end.                                      *)
MCStatuses == {-1, 0, 3, 124}

-----------------------------------------------------------------------------
driver_vars == vars

NoDriver ==
  /\ binary = Unopenable /\ flags = PlainFlags
  /\ phase = "idle"
  /\ pos = 0
  /\ addrs = <<>> /\ fdes = <<>> /\ results = {} /\ checkable = <<>>
  /\ enumerate_error = FALSE
  /\ exit_code = -1

NoReport ==
  /\ report = <<>>
  /\ use_addr2line = FALSE
  /\ queried = {} /\ printed = {}
  /\ pending = <<>> /\ fields = <<>> /\ source_lines = <<>> /\ debug_names = <<>> /\ to_write = <<>>
  /\ start = 0 /\ at = 0
  /\ step = "idle"
  /\ sound = TRUE

NoInspect == size = 0 /\ off = 0 /\ has_read = 0 /\ at_eof = FALSE /\ write_status = "ok" /\ inspecting = "idle"

NoSweep ==
  /\ sweep = "idle"
  /\ next = 0 /\ tokens = 0 /\ joined = 0
  /\ worker = [i \in Binaries |-> "none"] /\ rc = [i \in Binaries |-> NoStatus]
  /\ abnormal = {}
  /\ sweep_exit = -1

MCInit ==
  \/ "driver" \in Machines /\ Init /\ ProcessInit /\ NoReport /\ NoInspect /\ NoSweep
  \/ "report" \in Machines /\ ReportInit /\ NoDriver /\ NoInspect /\ NoSweep
  \/ "inspect" \in Machines /\ InspectInit /\ NoDriver /\ NoReport /\ NoSweep
  \/ "sweep" \in Machines /\ SweepInit /\ NoDriver /\ ProcessInit /\ NoReport /\ NoInspect

Driving == Next /\ UNCHANGED <<process_vars, report_vars, inspect_vars, sweep_vars>>

Reporting == step # "idle" /\ ReportNext /\ UNCHANGED <<driver_vars, inspect_vars, sweep_vars>>

Inspecting == inspecting # "idle" /\ InspectNext /\ UNCHANGED <<driver_vars, report_vars, sweep_vars>>

Sweeping == SweepNext /\ UNCHANGED <<driver_vars, process_vars, report_vars, inspect_vars>>

MCNext == Driving \/ Reporting \/ Inspecting \/ Sweeping

MCVars == <<driver_vars, process_vars, report_vars, inspect_vars, sweep_vars>>

(* The tool is one thread that reads a file; the kernel runs its children  *)
(* and the sweep's threads, and lets a child that is not stuck go on.      *)
Addr2LineRuns == step # "idle" /\ Addr2Line /\ UNCHANGED <<driver_vars, inspect_vars, sweep_vars>>

PrintReportRuns == step # "idle" /\ PrintReport /\ UNCHANGED <<driver_vars, inspect_vars, sweep_vars>>

ScriptRuns == inspecting # "idle" /\ InspectScript /\ UNCHANGED <<driver_vars, report_vars, sweep_vars>>

PipelineRuns == inspecting # "idle" /\ RunInspectPipeline /\ UNCHANGED <<driver_vars, report_vars, sweep_vars>>

MainRuns == MainThread /\ UNCHANGED <<driver_vars, process_vars, report_vars, inspect_vars>>

WorkerRuns(i) == WorkerThread(i) /\ UNCHANGED <<driver_vars, process_vars, report_vars, inspect_vars>>

MCSpec ==
  /\ MCInit
  /\ [][MCNext]_MCVars
  /\ WF_MCVars(Driving)
  /\ WF_MCVars(PrintReportRuns) /\ WF_MCVars(Addr2LineRuns)
  /\ WF_MCVars(PipelineRuns) /\ WF_MCVars(ScriptRuns)
  /\ WF_MCVars(MainRuns) /\ \A i \in Binaries : WF_MCVars(WorkerRuns(i))

-----------------------------------------------------------------------------
(* The tool exits with a status (main).                                    *)
ToolExits == phase = "idle" \/ Exits

(* PrintReport ends, however addr2line behaves.                            *)
ReportFinishes == step = "idle" \/ ReportEnds

(* RunInspectPipeline ends, however inspect.rb behaves.                    *)
InspectFinishes == inspecting = "idle" \/ InspectEnds

(* run_sweep ends, however the checks end.                                 *)
SweepFinishes == sweep = "idle" \/ SweepEnds
=============================================================================
