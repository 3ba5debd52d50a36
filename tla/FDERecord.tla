------------------------------ MODULE FDERecord ------------------------------
(***************************************************************************)
(* The FDE under check, as both checkers look at it.                       *)
(*                                                                         *)
(* It is a record: its cfi; code, a map from addresses to instructions (id *)
(* "invalid" does not decode); rodata, a map from addresses to 32-bit      *)
(* table entries; its LSDA's call_sites and whether the LSDA parses;       *)
(* others, the later CFIs of the file; whether a symbol starts here; and,  *)
(* of the options, max_iterations and whether jump tables may be guessed.  *)
(***************************************************************************)
EXTENDS InsnSemantics, RowChecker

IsFDE(f) ==
  /\ DOMAIN f = {"cfi", "code", "rodata", "call_sites", "lsda_ok", "others", "at_function_entry",
                 "max_iterations", "guessing_enabled"}
  /\ f.cfi \in CFIs /\ f.others \in Seq(CFIs)
  /\ DOMAIN f.code \subseteq Int /\ \A pc \in DOMAIN f.code : f.code[pc] \in Insns
  /\ DOMAIN f.rodata \subseteq Int /\ \A addr \in DOMAIN f.rodata : f.rodata[addr] \in Int
  /\ f.call_sites \in Seq([start : Int, end : Int, landing_pad : Int])
  /\ f.lsda_ok \in BOOLEAN /\ f.at_function_entry \in BOOLEAN /\ f.guessing_enabled \in BOOLEAN
  /\ f.max_iterations \in Nat

FDEPCs(f) == f.cfi.pc_begin..(f.cfi.pc_end - 1)

InRange(f, pc) == pc \in FDEPCs(f)

IsInstruction(f, pc) == pc \in DOMAIN f.code /\ f.code[pc].id # "invalid"

(* The walk never gives the decoder bytes past the end of the FDE.         *)
Decodes(f, pc) == IsInstruction(f, pc) /\ pc + f.code[pc].size <= f.cfi.pc_end

HasRow(cfi, pc) == RowAt(cfi, pc) # 0

RowOf(cfi, pc) == cfi.rows[RowAt(cfi, pc)]

FirstRow(f) == RowOf(f.cfi, f.cfi.pc_begin)

is_canonical_entry(f) == IsCanonicalEntry(FirstRow(f))

(* CFIContaining: the last CFI of the index that starts at or before pc,   *)
(* when pc lies in it.  {} or {cfi}.                                       *)
CFIContaining(f, pc) ==
  LET index == <<f.cfi>> \o f.others
      starts == {i \in 1..Len(index) : index[i].pc_begin <= pc}
  IN  {index[i] : i \in {j \in starts : (\A k \in starts : k <= j) /\ pc < index[j].pc_end}}
=============================================================================
