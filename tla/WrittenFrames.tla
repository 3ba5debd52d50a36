--------------------------- MODULE WrittenFrames ---------------------------
(***************************************************************************)
(* What an assembler and a linker put into .eh_frame and                   *)
(* .gcc_except_table (external), and what reading it back must give.       *)
(*                                                                         *)
(* written is a sequence of records                                        *)
(*   [kind "cie", aug, code_align, data_align, return_reg, ptr_enc,        *)
(*    lsda_enc, insns]      aug: the augmentation string, as characters    *)
(*   [kind "fde", cie, begin, range, lsda, insns]                          *)
(*                          cie: index of its CIE; lsda: address or 0      *)
(*   [kind "end"]           the terminator                                 *)
(* An instruction is [op, kinds, args, means, scaled]: an opcode, operands *)
(* of the DWARF formats ("op": in the opcode byte), and the visitor call   *)
(* it stands for: its name, or "move", "move_to" or "nothing"; scaled says *)
(* that the last argument is in units of the data alignment.  One byte of  *)
(* the section may be damaged.                                             *)
(***************************************************************************)
EXTENDS LSDAReader

CONSTANTS
  Writings,      \* triples <<written, lsda, what a damaged byte may read as>>
  LSDABase,      \* address of the LSDA, before the section
  FrameBase      \* address of .eh_frame

VARIABLES
  written,
  starts,        \* address of every record
  lsda,          \* [lpstart, ttype, encoding, sites], a site being [start, length, pad]
  damage         \* link-time address of the damaged byte, or 0

written_vars == <<written, starts, lsda, damage>>

-----------------------------------------------------------------------------
(* Encoding.                                                               *)

Fixed(v, n) == [i \in 1..n |-> (v \div 256^(i - 1)) % 256]

Uleb(v) == IF v < 128 THEN <<v>> ELSE <<128 + (v % 128), v \div 128>>

Sleb(v) == IF -64 <= v /\ v < 64 THEN <<v % 128>> ELSE <<128 + (v % 128), (v \div 128) % 128>>

Wide(enc) == Format(enc) \in {DW_EH_PE_absptr, DW_EH_PE_udata8, DW_EH_PE_sdata8}

(* A null pointer is 0 whatever its encoding.                              *)
Pointer(v, enc, at) ==
  Fixed(IF v # 0 /\ Application(enc) = DW_EH_PE_pcrel THEN v - at ELSE v, IF Wide(enc) THEN Width.u64 ELSE Width.u32)

Concat(seqs) == FoldLeft(LAMBDA acc, s : acc \o s, <<>>, seqs)

OperandBytes(kind, v, enc, at) ==
  CASE kind = "op" -> <<>>
    [] kind = "uleb" -> Uleb(v)
    [] kind = "sleb" -> Sleb(v)
    [] kind = "ptr" -> Pointer(v, enc, at)
    [] kind = "block" -> Uleb(v) \o [i \in 1..v |-> 255]
    [] OTHER -> Fixed(v, Width[kind])

InsnBytes(insn, enc, at) ==
  <<insn.op + IF insn.kinds # <<>> /\ insn.kinds[1] = "op" THEN insn.args[1] ELSE 0>>
  \o Concat([i \in 1..Len(insn.kinds) |-> OperandBytes(insn.kinds[i], insn.args[i], enc, at + 1)])

Stream(insns, enc, at) ==
  FoldLeft(LAMBDA acc, insn : acc \o InsnBytes(insn, enc, at + Len(acc)), <<>>, insns)

WithLength(body) == Fixed(Len(body), Width.u32) \o body

HasZ(c) == c.aug # <<>>

Has(c, ch) == \E i \in 1..Len(c.aug) : c.aug[i] = ch

(* The personality is a 64-bit indirect pointer to nowhere in particular.  *)
AugData(c) ==
  Concat([i \in 1..Len(c.aug) |->
            CASE c.aug[i] = Char.R -> <<c.ptr_enc>>
              [] c.aug[i] = Char.L -> <<c.lsda_enc>>
              [] c.aug[i] = Char.P -> <<128 + DW_EH_PE_udata8>> \o Fixed(77, Width.u64)
              [] OTHER -> <<>>])

PtrEnc(c) == IF Has(c, Char.R) THEN c.ptr_enc ELSE DW_EH_PE_absptr

CIEBytes(c, at) ==
  LET head == Fixed(0, Width.u32) \o <<1>> \o c.aug \o <<0>> \o Uleb(c.code_align) \o Sleb(c.data_align)
              \o <<c.return_reg>> \o (IF HasZ(c) THEN Uleb(Len(AugData(c))) \o AugData(c) ELSE <<>>)
  IN  WithLength(head \o Stream(c.insns, PtrEnc(c), at + Width.u32 + Len(head)))

FDEBytes(f, c, at, cie_at) ==
  LET enc == PtrEnc(c)
      back == Fixed(at + Width.u32 - cie_at, Width.u32)
      range == Pointer(f.begin, enc, at + 2 * Width.u32) \o Pointer(f.range, Format(enc), 0)
      aug_at == at + Width.u32 + Len(back) + Len(range)
      aug == IF ~HasZ(c) THEN <<>>
             ELSE IF ~Has(c, Char.L) THEN <<0>>
             ELSE LET p == Pointer(f.lsda, c.lsda_enc, aug_at + 1) IN <<Len(p)>> \o p
      head == back \o range \o aug
  IN  WithLength(head \o Stream(f.insns, enc, at + Width.u32 + Len(head)))

(* The section's bytes and the address of every record.                    *)
Assembled(recs) ==
  FoldLeft(LAMBDA acc, r :
             LET at == FrameBase + Len(acc.bytes)
                 bytes == CASE r.kind = "cie" -> CIEBytes(r, at)
                            [] r.kind = "fde" -> FDEBytes(r, recs[r.cie], at, acc.starts[r.cie])
                            [] OTHER -> Fixed(0, Width.u32)
             IN  [bytes |-> acc.bytes \o bytes, starts |-> Append(acc.starts, at)],
           [bytes |-> <<>>, starts |-> <<>>], recs)

SiteField(v, enc) == IF Format(enc) = DW_EH_PE_uleb128 THEN Uleb(v) ELSE Fixed(v, Width.u32)

LSDABytes(x, pc_begin) ==
  LET sites == Concat([i \in 1..Len(x.sites) |->
                         SiteField(x.sites[i].start, x.encoding) \o SiteField(x.sites[i].length, x.encoding)
                         \o SiteField(x.sites[i].pad, x.encoding) \o Uleb(i)])
  IN  (IF x.lpstart = DW_EH_PE_omitted THEN <<DW_EH_PE_omitted>>
       ELSE <<x.lpstart>> \o Pointer(pc_begin, x.lpstart, LSDABase + 1))
      \o (IF x.ttype THEN <<DW_EH_PE_udata4>> \o Uleb(200) ELSE <<DW_EH_PE_omitted>>)
      \o <<x.encoding>> \o Uleb(Len(sites)) \o sites

-----------------------------------------------------------------------------
FDEs == {i \in 1..Len(written) : written[i].kind = "fde"}

(* Addresses of record i.                                                  *)
Extent(i) ==
  starts[i]..((IF i < Len(written) THEN starts[i + 1] ELSE eh_frame[2]) - 1)

LengthField(i) == starts[i]..(starts[i] + Width.u32 - 1)

(* The LSDA belongs to the FDEs that point to it; all of them begin at the *)
(* same address here.                                                      *)
WritesImage(recs, x, damages) ==
  LET assembled == Assembled(recs)
      frame == assembled.bytes
      with == {i \in 1..Len(recs) : recs[i].kind = "fde" /\ recs[i].lsda # 0}
      table == IF with = {} THEN <<>> ELSE LSDABytes(x, recs[CHOOSE i \in with : TRUE].begin)
      byte(a) == IF a >= FrameBase THEN frame[a - FrameBase + 1]
                 ELSE IF a < LSDABase + Len(table) THEN table[a - LSDABase + 1] ELSE 0
      intact == [a \in LSDABase..(FrameBase + Len(frame) - 1) |-> byte(a)]
  IN  /\ starts = assembled.starts
      /\ eh_frame = <<FrameBase, FrameBase + Len(frame)>>
      /\ \/ damage = 0 /\ image = intact
         \/ \E v \in damages : /\ damage \in FrameBase..(FrameBase + Len(frame) - 1)
                               /\ image = [intact EXCEPT ![damage] = v]

-----------------------------------------------------------------------------
(* What the records mean.                                                  *)

Scale(insn, c) ==
  [i \in 1..Len(insn.args) |->
     Wrap(IF insn.scaled /\ i = Len(insn.args) THEN insn.args[i] * c.data_align ELSE insn.args[i])]

(* The calls for a stream that starts at location loc.                     *)
Meaning(insns, c, loc) ==
  FoldLeft(LAMBDA acc, insn :
             IF insn.means = "nothing" THEN acc
             ELSE IF insn.means \in {"move", "move_to"}
             THEN LET to == IF insn.means = "move_to" THEN insn.args[1]
                            ELSE acc.loc + insn.args[1] * c.code_align
                  IN  [loc |-> to, calls |-> Append(acc.calls, <<"HandleSetLoc", to>>)]
             ELSE [acc EXCEPT !.calls = Append(@, <<insn.means>> \o Scale(insn, c))],
           [loc |-> loc, calls |-> <<>>], insns).calls

MeaningOf(f) ==
  LET c == written[f.cie] IN
  <<<<"StartFDE", c.return_reg, f.begin, f.begin + f.range>>>>
  \o Meaning(c.insns, c, f.begin)
  \o (IF f.lsda # 0 THEN <<<<"HandleLSDA", f.lsda>>>> ELSE <<>>)
  \o <<<<"AfterCIE">>>>
  \o Meaning(f.insns, c, f.begin)
  \o <<<<"HandleSetLoc", f.begin + f.range>>>>

(* A known augmentation, and known pointers that do not depend on where    *)
(* the file is loaded.  The LSDA lies before the section: an unsigned      *)
(* offset of 32 bits does not reach it.  A CIE does not move.              *)
Supported(f) ==
  LET c == written[f.cie] IN
  /\ HasZ(c) => Head(c.aug) = Char.z /\ \A i \in 1..Len(c.aug) : c.aug[i] \in Range(Char)
  /\ \A i \in 1..Len(c.insns) : c.insns[i].means \notin {"move", "move_to"}
  /\ Application(PtrEnc(c)) = DW_EH_PE_pcrel
  /\ Wide(PtrEnc(c)) \/ Format(PtrEnc(c)) \in {DW_EH_PE_sdata4, DW_EH_PE_udata4}
  /\ Has(c, Char.L) =>
       /\ Application(c.lsda_enc) = DW_EH_PE_pcrel /\ f.lsda # 0
       /\ Wide(c.lsda_enc) \/ Format(c.lsda_enc) = DW_EH_PE_sdata4

(* Neither the FDE nor its CIE is damaged, nor a length before it.         *)
Untouched(i) ==
  /\ Supported(written[i])
  /\ damage \notin Extent(i) \cup Extent(written[i].cie)
  /\ \A j \in 1..i : damage \notin LengthField(j)

(* The visitor's calls, but for HandleAugS, which only marks the frame.    *)
Heard(cfi) == SelectSeq(cfi.calls, LAMBDA call : call[1] # "HandleAugS")

(* Every position-independent FDE that is intact, together with its CIE    *)
(* and the lengths on the way to it, is listed and read exactly as it was  *)
(* written: the range, the LSDA, and every instruction with its operands,  *)
(* signs, scaling and position, in order.  Damage elsewhere in the section *)
(* does not reach it (ReadAllFDEs: a record we cannot decode costs one     *)
(* report line, not the run).                                              *)
UndamagedIsRead ==
  reading = "listed" =>
    \A i \in FDEs : Untouched(i) =>
      \E k \in 1..Len(cfis) : cfis[k].at = starts[i] /\ cfis[k].ok /\ Heard(cfis[k]) = MeaningOf(written[i])

SiteOf(f, s) ==
  [start |-> f.begin + s.start, end |-> f.begin + s.start + s.length, landing_pad |-> f.begin + s.pad]

(* The call sites of f that have a landing pad inside it.                  *)
SitesOf(f) ==
  SelectSeq([j \in 1..Len(lsda.sites) |-> SiteOf(f, lsda.sites[j])],
            LAMBDA s : s.landing_pad # f.begin /\ s.landing_pad < f.begin + f.range)

Sites2Bag(sites) == [s \in Range(sites) |-> Cardinality({j \in 1..Len(sites) : sites[j] = s})]

(* The call-site table of an intact FDE is the one written, less the call  *)
(* sites without a landing pad in the FDE, and is sorted by start, which   *)
(* LandingPadForCall's binary search relies on, whatever the order and the *)
(* encoding it was written in.                                             *)
CallSitesAreWritten ==
  \A k \in 1..Len(tables) : \A i \in FDEs :
    Untouched(i) /\ cfis[k].at = starts[i] =>
      /\ tables[k].ok
      /\ \A j \in 1..(Len(tables[k].sites) - 1) : tables[k].sites[j].start <= tables[k].sites[j + 1].start
      /\ Sites2Bag(tables[k].sites)
           = IF written[i].lsda = 0 THEN Sites2Bag(<<>>) ELSE Sites2Bag(SitesOf(written[i]))

(* eh-frame-reader.h on HandleLSDA: lsda_ptr is the resolved address of    *)
(* the FDE's LSDA, in the same live-pointer address space as every other   *)
(* pointer the reader hands out; CFI::lsda_addr is then its address in the *)
(* file.                                                                   *)
LSDAIsResolved ==
  reading = "listed" =>
    \A k \in 1..Len(cfis) : \A i \in FDEs :
      cfis[k].ok /\ cfis[k].at = starts[i] => LSDAAddr(cfis[k]) = written[i].lsda

-----------------------------------------------------------------------------
WrittenInit ==
  /\ \E w \in Writings : written = w[1] /\ lsda = w[2] /\ WritesImage(w[1], w[2], w[3])
  /\ ReaderInit
  /\ LSDAInit

WrittenNext ==
  /\ \/ ReaderNext /\ UNCHANGED lsda_vars
     \/ LSDANext
  /\ UNCHANGED written_vars
=============================================================================
