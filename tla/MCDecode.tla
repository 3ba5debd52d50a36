----------------------------- MODULE MCDecode -----------------------------
(***************************************************************************)
(* Three machines that share no state, one per behaviour: CFITable on      *)
(* instruction streams ("table"), the readers on the bytes of small        *)
(* sections ("frames"), and ELFImage::Open on small files ("elf").         *)
(***************************************************************************)
EXTENDS CFITable

CONSTANTS
  Machines,        \* the machines to run
  Width, bias, Writings, LSDABase, FrameBase,
  Files, PageSize, SpanLimit

VARIABLES
  image, eh_frame, reading, pos, addrs, enumerate_error, d, cfis, l, tables, written, starts, lsda, damage,
  file, opening, done, segments, hdr_vaddr, memory, eh_frame_start, eh_frame_end, plt_ranges, tables_at, func_symbols

(* D for the definitions that Writings needs, R for the machine.           *)
D == INSTANCE EhFrameReader

R == INSTANCE WrittenFrames

E == INSTANCE ElfImage

-----------------------------------------------------------------------------
(* CFITable: two FDE ranges (one short, one empty), moves by zero, one,    *)
(* two and past the end of the address space, a rule for a tracked and for *)
(* an exotic register.                                                     *)

MCRanges == {<<1, 3>>, <<2, 2>>}
MCDeltas == {0, 1, 2, PCLimit - 1}
MCRegRules == {AtCFAOffset(-16), RegRule("kSameValue", 0, 0)}

-----------------------------------------------------------------------------
(* Sections.  Fields of 1, 2, 2 and 3 bytes; code at 600.                  *)

MCWidth == [u8 |-> 1, u16 |-> 2, u32 |-> 2, u64 |-> 3]

Code == 600

Insn(op, kinds, args, means, scaled) ==
  [op |-> op, kinds |-> kinds, args |-> args, means |-> means, scaled |-> scaled]

U == "uleb"
S == "sleb"

(* The call frame instructions of DWARF, at the edges of their operands.   *)
MoveInsns ==
  {Insn(64, <<"op">>, <<n>>, "move", FALSE) : n \in {0, 1, 63}}
  \cup {Insn(2, <<"u8">>, <<200>>, "move", FALSE), Insn(3, <<"u16">>, <<300>>, "move", FALSE),
        Insn(4, <<"u32">>, <<258>>, "move", FALSE), Insn(1, <<"ptr">>, <<Code + 3>>, "move_to", FALSE)}

RuleInsns ==
  {Insn(128, <<"op", U>>, <<r, n>>, "HandleOffset", TRUE) : r \in {6, 63}, n \in {2, 300}}
  \cup {Insn(17, <<U, S>>, <<6, n>>, "HandleOffset", TRUE) : n \in {-65, -2, 63, 64}}
  \cup {Insn(5, <<U, U>>, <<16, 130>>, "HandleOffset", TRUE),
        Insn(192, <<"op">>, <<3>>, "HandleRestore", FALSE), Insn(6, <<U>>, <<3>>, "HandleRestore", FALSE),
        Insn(7, <<U>>, <<16>>, "HandleUndefined", FALSE), Insn(8, <<U>>, <<3>>, "HandleSameValue", FALSE),
        Insn(9, <<U, U>>, <<3, 200>>, "HandleRegister", FALSE),
        Insn(10, <<>>, <<>>, "HandleRememberState", FALSE), Insn(11, <<>>, <<>>, "HandleRestoreState", FALSE),
        Insn(12, <<U, U>>, <<7, 136>>, "HandleDefCFA", FALSE), Insn(18, <<U, S>>, <<7, -3>>, "HandleDefCFA", TRUE),
        Insn(13, <<U>>, <<6>>, "HandleDefCFAReg", FALSE), Insn(14, <<U>>, <<16>>, "HandleDefCFAOffset", FALSE),
        Insn(19, <<S>>, <<-2>>, "HandleDefCFAOffset", TRUE),
        Insn(15, <<"block">>, <<2>>, "HandleDefCFAExpression", FALSE),
        Insn(16, <<U, "block">>, <<6, 1>>, "HandleExpression", FALSE),
        Insn(22, <<U, "block">>, <<6, 0>>, "HandleValExpression", FALSE),
        Insn(20, <<U, U>>, <<6, 2>>, "HandleValOffset", TRUE), Insn(21, <<U, S>>, <<6, -1>>, "HandleValOffset", TRUE),
        Insn(45, <<>>, <<>>, "nothing", FALSE), Insn(46, <<U>>, <<16>>, "nothing", FALSE),
        Insn(0, <<>>, <<>>, "nothing", FALSE)}

DefCFA == Insn(12, <<U, U>>, <<7, 8>>, "HandleDefCFA", FALSE)
Push == Insn(14, <<U>>, <<16>>, "HandleDefCFAOffset", FALSE)
Advance == Insn(64, <<"op">>, <<1>>, "move", FALSE)

CIE(aug, code_align, data_align, ptr_enc, lsda_enc, insns) ==
  [kind |-> "cie", aug |-> aug, code_align |-> code_align, data_align |-> data_align, return_reg |-> 16,
   ptr_enc |-> ptr_enc, lsda_enc |-> lsda_enc, insns |-> insns]

FDE(cie, begin, lsda_at, insns) ==
  [kind |-> "fde", cie |-> cie, begin |-> begin, range |-> 12, lsda |-> lsda_at, insns |-> insns]

Terminator == [kind |-> "end"]

NoTable == [lpstart |-> D!DW_EH_PE_omitted, ttype |-> FALSE, encoding |-> D!DW_EH_PE_uleb128, sites |-> <<>>]

pcrel == D!DW_EH_PE_pcrel
pcrel4 == pcrel + D!DW_EH_PE_sdata4

z == D!Char.z
P == D!Char.P
L == D!Char.L
Rr == D!Char.R

(* Every instruction in the FDE under three alignments, and in the CIE.    *)
InsnWritings ==
  {<<<<CIE(<<z, Rr>>, a[1], a[2], pcrel4, 0, <<DefCFA>>), FDE(1, Code, 0, <<i, Advance>>), Terminator>>, NoTable, {}>> :
     a \in {<<1, -8>>, <<4, -8>>, <<130, 100>>}, i \in MoveInsns \cup RuleInsns}
  \cup {<<<<CIE(<<z, Rr>>, 1, -8, pcrel4, 0, <<i, DefCFA>>), FDE(1, Code, 0, <<Push>>)>>, NoTable, {}>> : i \in RuleInsns}
  \cup {<<<<CIE(<<z, Rr>>, 1, -8, pcrel4, 0, <<Advance>>), FDE(1, Code, 0, <<Push>>)>>, NoTable, {}>>}

(* Augmentations and pointer encodings, known and unknown.                 *)
AugStrings ==
  {<<>>, <<z>>, <<z, Rr>>, <<z, P, L, Rr>>, <<z, L, Rr>>, <<z, Rr, D!Char.S>>, <<z, D!Char.S, Rr>>,
   <<z, D!Char.B, Rr>>, <<z, P, Rr>>, <<Rr>>, <<z, 88>>}

PointerFormats == {D!DW_EH_PE_sdata4, D!DW_EH_PE_udata4, D!DW_EH_PE_udata8, D!DW_EH_PE_sdata8, D!DW_EH_PE_absptr, 5}

AugWritings ==
  {<<<<CIE(aug, 1, -8, f + app, f + app, <<DefCFA>>), FDE(1, Code, IF L \in {aug[i] : i \in 1..Len(aug)} THEN at ELSE 0, <<Advance, Push>>), Terminator>>, NoTable, {}>> :
     aug \in AugStrings, f \in PointerFormats, app \in {0, pcrel, 48}, at \in {0, LSDABase}}


(* Call-site tables.                                                       *)
Site(s, n, p) == [start |-> s, length |-> n, pad |-> p]

SiteMenu == {Site(0, 2, 6), Site(2, 3, 0), Site(4, 1, 8), Site(2, 2, 130), Site(2, 1, 9)}

TableWritings ==
  {<<<<CIE(<<z, P, L, Rr>>, 1, -8, pcrel4, pcrel4, <<DefCFA>>), FDE(1, Code, LSDABase, <<Push>>), Terminator>>,
     [lpstart |-> lp, ttype |-> t, encoding |-> e, sites |-> s], {}>> :
     lp \in {D!DW_EH_PE_omitted, D!DW_EH_PE_absptr, pcrel4}, t \in BOOLEAN,
     e \in {D!DW_EH_PE_uleb128, D!DW_EH_PE_udata4, D!DW_EH_PE_sdata4},
     s \in UNION {[1..n -> SiteMenu] : n \in 0..2}}

(* Two CIEs, three FDEs, one byte of which may be damaged.                 *)
LongSection ==
  <<CIE(<<z, Rr>>, 1, -8, pcrel4, 0, <<DefCFA>>), FDE(1, Code, 0, <<Advance, Push>>),
    CIE(<<z, P, L, Rr>>, 1, -8, pcrel4, pcrel4, <<DefCFA>>), FDE(3, Code + 12, LSDABase, <<Push>>),
    FDE(1, Code + 24, 0, <<Push>>), Terminator>>

OneSite == [lpstart |-> D!DW_EH_PE_omitted, ttype |-> TRUE, encoding |-> D!DW_EH_PE_uleb128, sites |-> <<Site(0, 2, 6)>>]

LongWritings == {<<LongSection, OneSite, {0, 1, 127, 255}>>}

AllWritings == InsnWritings \cup AugWritings \cup TableWritings \cup LongWritings

(* An LSDA pointer that is an absolute address, as in an executable that   *)
(* is not position-independent.                                            *)
AbsoluteWritings ==
  {<<<<CIE(<<z, P, L, Rr>>, 1, -8, pcrel4, D!DW_EH_PE_udata4, <<DefCFA>>), FDE(1, Code, LSDABase, <<Push>>), Terminator>>,
     OneSite, {}>>}
-----------------------------------------------------------------------------
(* Files of two or three segments, in pages of 4 bytes: text, data that    *)
(* ends inside a page and has more memory than file, and one or none       *)
(* between them.                                                           *)

Phdr(type, vaddr, filesz, memsz, offset) ==
  [type |-> type, vaddr |-> vaddr, filesz |-> filesz, memsz |-> memsz, offset |-> offset]

Sec(name, type, addr, size, symbols) ==
  [name |-> name, type |-> type, addr |-> addr, size |-> size, symbols |-> symbols]

Func(v) == [func |-> TRUE, vaddr |-> v, size |-> 1]

Text(n) == Phdr("PT_LOAD", 4, n, n, 0)
EhFrameHdr(v) == Phdr("PT_GNU_EH_FRAME", v, 8, 8, 0)

MCSections(addr, size) ==
  <<Sec("other", "other", 0, 0, {}), Sec(".plt", "other", 4, 2, {}), Sec(".eh_frame", "other", addr, size, {}),
    Sec(".debug", "other", 0, 3, {}), Sec("other", "dynsym", 4, 1, {<<Func(6)>>}),
    Sec("other", "symtab", 0, 1, {<<Func(7), Func(5), [Func(4) EXCEPT !.func = FALSE]>>})>>

(* text at 4.., read-only data from ro (file offset ro - 4 or a page off). *)
RO(vaddr, filesz, memsz, slack) == Phdr("PT_LOAD", vaddr, filesz, memsz, vaddr - 4 + slack)

File(phdrs, sections, have, names, hdr) ==
  [size |-> 40, valid |-> TRUE, phdrs |-> phdrs, sections |-> sections, have_sections |-> have, names |-> names, hdr |-> hdr]

Hdr(offset, version, encoding, value) ==
  [offset |-> offset, version |-> version, encoding |-> encoding, value |-> value]

(* .eh_frame_hdr at ro, .eh_frame of 5 bytes 8 bytes on.                   *)
MCFiles ==
  {File(<<EhFrameHdr(ro), RO(ro, n, n + bss, slack), Text(t)>> \o more, MCSections(ro + 8, 5), names # {}, names = {TRUE},
        Hdr(ro - 4 + slack, h[1], h[2], IF h[2] = "pcrel" THEN 4 ELSE ro + 8)) :
     ro \in {12, 13, 14}, n \in {7, 13}, bss \in {0, 3}, slack \in {0, 1, 4}, t \in {8, 10},
     more \in {<<>>, <<RO(36, 4, 9, 0)>>, <<Phdr("PT_LOAD", 32, 0, 3, 0)>>, <<Phdr("PT_LOAD", 36, 5, 4, 0)>>},
     names \in {{}, {TRUE}, {FALSE}}, h \in {<<1, "pcrel">>, <<1, "absolute">>, <<1, "other">>, <<2, "pcrel">>}}
  \cup {File(<<>>, <<>>, FALSE, FALSE, Hdr(0, 1, "pcrel", 4)),
        File(<<Text(4), Phdr("PT_LOAD", 64, 4, 4, 0)>>, <<>>, FALSE, FALSE, Hdr(0, 1, "pcrel", 4)),
        [File(<<Text(4)>>, <<>>, FALSE, FALSE, Hdr(0, 1, "pcrel", 4)) EXCEPT !.valid = FALSE]}

-----------------------------------------------------------------------------
table_vars == vars
frame_vars ==
  <<image, eh_frame, reading, pos, addrs, enumerate_error, d, cfis, l, tables, written, starts, lsda, damage>>
file_vars ==
  <<file, opening, done, segments, hdr_vaddr, memory, eh_frame_start, eh_frame_end, plt_ranges, tables_at, func_symbols>>

NoTableMachine ==
  /\ phase = "idle"
  /\ pc_begin = 0 /\ pc_end = 0 /\ current_loc = 0 /\ row_pc = 0
  /\ cur_cfa = kUndefinedCFA
  /\ cur_regs = <<>> /\ cie_regs = <<>> /\ stack = <<>> /\ rows = <<>> /\ declared = <<>>
  /\ has_exotic_regs = FALSE
  /\ ops = 0
  /\ wrapped = FALSE

NoFrameMachine ==
  /\ image = <<>> /\ eh_frame = <<0, 0>>
  /\ reading = "idle"
  /\ pos = 0 /\ addrs = <<>> /\ enumerate_error = FALSE
  /\ d = R!NoDecoder /\ l = R!NoLSDA
  /\ cfis = <<>> /\ tables = <<>> /\ written = <<>> /\ starts = <<>>
  /\ lsda = NoTable /\ damage = 0

NoFileMachine ==
  /\ file = <<>>
  /\ opening = "idle"
  /\ done = 0
  /\ segments = <<>> /\ memory = <<>> /\ func_symbols = <<>>
  /\ hdr_vaddr = 0 /\ eh_frame_start = 0 /\ eh_frame_end = 0
  /\ plt_ranges = {}
  /\ tables_at = <<>>

MCInit ==
  \/ "table" \in Machines /\ Init /\ NoFrameMachine /\ NoFileMachine
  \/ "frames" \in Machines /\ R!WrittenInit /\ NoTableMachine /\ NoFileMachine
  \/ "elf" \in Machines /\ E!ElfInit /\ NoTableMachine /\ NoFrameMachine

MCNext ==
  \/ Next /\ UNCHANGED <<frame_vars, file_vars>>
  \/ R!WrittenNext /\ UNCHANGED <<table_vars, file_vars>>
  \/ E!ElfNext /\ UNCHANGED <<table_vars, frame_vars>>

MCSpec == MCInit /\ [][MCNext]_<<table_vars, frame_vars, file_vars>>

-----------------------------------------------------------------------------
(* Every intact position-independent FDE is read as it was written, and    *)
(* damage elsewhere in the section does not reach it (EnumerateFDEs,       *)
(* ParseFDE, RunInstructions, ReadAllFDEs).                                *)
UndamagedIsRead == R!UndamagedIsRead

(* The call-site table of an intact FDE is the one written, sorted, less   *)
(* the call sites without a landing pad in it (ReadLSDACallSites,          *)
(* SetupCallSites).                                                        *)
CallSitesAreWritten == R!CallSitesAreWritten

(* eh-frame-reader.h on HandleLSDA: the pointer is resolved, whatever its  *)
(* encoding.                                                               *)
LSDAIsResolved == R!LSDAIsResolved

(* Every byte BytesAt hands out is mapped, and is the file's byte for its  *)
(* address (ELFImage::Open's fake load, BytesAt).                          *)
BytesAtIsTheFile == E!BytesAtIsTheFile

(* .eh_frame is found whole and mapped, with or without section headers    *)
(* (ELFImage::Open).                                                       *)
EhFrameIsFound == E!EhFrameIsFound
=============================================================================
