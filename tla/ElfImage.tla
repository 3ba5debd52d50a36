------------------------------ MODULE ElfImage ------------------------------
(***************************************************************************)
(* ELFImage::Open (elf-image.cc): the program headers, the fake load that  *)
(* maps every PT_LOAD at its distance from the others, the sections, and   *)
(* .eh_frame_hdr as the way to .eh_frame in a file stripped of sections.   *)
(*                                                                         *)
(* A file is a record                                                      *)
(*   size      in bytes; a byte of the file is known by its offset         *)
(*   valid     the ELF header describes an x86-64 executable or library,   *)
(*             with a program header table inside the file                 *)
(*   phdrs     sequence of [type, vaddr, memsz, filesz, offset, exec]      *)
(*   sections  sequence of [name, type, addr, size, symbols]               *)
(*   have_sections  the file still has a well-formed section header table  *)
(*   names     the section names can be read                               *)
(*   hdr       [offset, version, encoding, value]: .eh_frame_hdr, and what *)
(*             its eh_frame_ptr field holds                                *)
(* Names and types that the code does not tell apart are "other".  symbols *)
(* is {} when the table cannot be read, or {sequence of [func, vaddr,      *)
(* size]}.  Addresses are link-time ones; no segment wraps around.         *)
(***************************************************************************)
EXTENDS Integers, FiniteSets, SequencesExt

CONSTANTS
  Files,
  PageSize,     \* 4096
  SpanLimit     \* largest image mapped; 2^40

VARIABLES
  file,
  opening,      \* "phdrs", "reserve", "map", "sections", "symbols", "fallback", then "opened" or "refused"
  done,         \* headers, segments or sections passed in this stage
  segments,
  hdr_vaddr,    \* .eh_frame_hdr, 0 when there is none
  memory,       \* vaddr -> offset of the byte mapped there, Reserved or Zero
  eh_frame_start, eh_frame_end,
  plt_ranges,
  tables_at,    \* [symtab, dynsym]: indices of the symbol tables, 0 for none
  func_symbols

elf_vars ==
  <<file, opening, done, segments, hdr_vaddr, memory, eh_frame_start, eh_frame_end, plt_ranges, tables_at, func_symbols>>

Reserved == -1      \* PROT_NONE: reading it is a fault
Zero == -2          \* the rest of the file's last page

RoundDown(v) == v - (v % PageSize)

RoundUp(v) == RoundDown(v + PageSize - 1)

FitsIn(off, len, size) == off <= size /\ len <= size - off

ElfInit ==
  /\ file \in Files
  /\ opening = "phdrs"
  /\ done = 0
  /\ segments = <<>>
  /\ hdr_vaddr = 0
  /\ memory = <<>>
  /\ eh_frame_start = 0 /\ eh_frame_end = 0
  /\ plt_ranges = {}
  /\ tables_at = [symtab |-> 0, dynsym |-> 0]
  /\ func_symbols = <<>>

Enter(stage) == opening' = stage /\ done' = 0

Found == <<eh_frame_start, eh_frame_end, plt_ranges, tables_at, func_symbols>>

Refuse == Enter("refused") /\ UNCHANGED <<segments, hdr_vaddr, memory>>

-----------------------------------------------------------------------------
(* The headers.                                                            *)

Loads(phdr) == phdr.type = "PT_LOAD" /\ phdr.memsz # 0

ReadPhdr ==
  /\ opening = "phdrs" /\ file.valid /\ done < Len(file.phdrs)
  /\ LET phdr == file.phdrs[done + 1] IN
       IF Loads(phdr) /\ (phdr.filesz > phdr.memsz \/ ~FitsIn(phdr.offset, phdr.filesz, file.size)) THEN Refuse
       ELSE /\ hdr_vaddr' = IF phdr.type = "PT_GNU_EH_FRAME" THEN phdr.vaddr ELSE hdr_vaddr
            /\ segments' = IF Loads(phdr) THEN Append(segments, phdr) ELSE segments
            /\ done' = done + 1
            /\ UNCHANGED <<opening, memory>>
  /\ UNCHANGED <<file, Found>>

ByVaddr(a, b) == a.vaddr < b.vaddr

PhdrsRead ==
  /\ opening = "phdrs"
  /\ file.valid => done = Len(file.phdrs)
  /\ IF ~file.valid \/ segments = <<>> THEN Refuse
     ELSE /\ segments' = SortSeq(segments, ByVaddr)
          /\ Enter("reserve")
          /\ UNCHANGED <<hdr_vaddr, memory>>
  /\ UNCHANGED <<file, Found>>

-----------------------------------------------------------------------------
(* The fake load.                                                          *)

MinVaddr == RoundDown(Min({segments[i].vaddr : i \in 1..Len(segments)}))

MaxEnd == RoundUp(Max({segments[i].vaddr + segments[i].memsz : i \in 1..Len(segments)}))

Reserve ==
  /\ opening = "reserve"
  /\ IF MaxEnd - MinVaddr > SpanLimit THEN Refuse
     ELSE /\ memory' = [v \in MinVaddr..(MaxEnd - 1) |-> Reserved]
          /\ Enter("map")
          /\ UNCHANGED <<segments, hdr_vaddr>>
  /\ UNCHANGED <<file, Found>>

(* Faulty variant: the part of the first page before the segment is not    *)
(* counted.                                                                *)
MapLenShort(seg) == RoundUp(seg.filesz)

MapLen(seg) == RoundUp(seg.filesz + seg.vaddr - RoundDown(seg.vaddr))

(* MAP_FIXED of whole pages of the file, over whatever was there.          *)
Mapped(seg) ==
  LET start == RoundDown(seg.vaddr)
      at(v) == RoundDown(seg.offset) + v - start
  IN  [v \in DOMAIN memory |->
         IF start <= v /\ v < start + MapLen(seg)
         THEN IF at(v) < file.size THEN at(v) ELSE Zero
         ELSE memory[v]]

MapSegment ==
  /\ opening = "map" /\ done < Len(segments)
  /\ LET seg == segments[done + 1] IN
       IF seg.filesz # 0 /\ (seg.vaddr % PageSize) # (seg.offset % PageSize) THEN Refuse
       ELSE /\ memory' = IF seg.filesz = 0 THEN memory ELSE Mapped(seg)
            /\ done' = done + 1
            /\ UNCHANGED <<opening, segments, hdr_vaddr>>
  /\ UNCHANGED <<file, Found>>

SegmentsMapped ==
  /\ opening = "map" /\ done = Len(segments)
  /\ Enter("sections")
  /\ UNCHANGED <<file, segments, hdr_vaddr, memory, Found>>

(* mmap fails.                                                             *)
MapFails ==
  /\ opening \in {"reserve", "map"}
  /\ Refuse
  /\ UNCHANGED <<file, Found>>

-----------------------------------------------------------------------------
(* The sections.                                                           *)

Placed(sec) == sec.addr # 0 /\ sec.size # 0

NameOf(sec) == IF file.names THEN sec.name ELSE "other"

Sections == IF file.have_sections THEN file.sections ELSE <<>>

IsEhFrame(sec) == NameOf(sec) = ".eh_frame" /\ Placed(sec)

IsPLT(sec) == NameOf(sec) = ".plt" /\ Placed(sec)

ReadSection ==
  /\ opening = "sections" /\ done < Len(Sections)
  /\ LET sec == Sections[done + 1]
         other == ~IsEhFrame(sec) /\ ~IsPLT(sec) /\ NameOf(sec) # ".debug"
     IN  /\ eh_frame_start' = IF IsEhFrame(sec) THEN sec.addr ELSE eh_frame_start
         /\ eh_frame_end' = IF IsEhFrame(sec) THEN sec.addr + sec.size ELSE eh_frame_end
         /\ plt_ranges' = IF IsPLT(sec) THEN plt_ranges \cup {<<sec.addr, sec.addr + sec.size>>} ELSE plt_ranges
         /\ tables_at' = IF other /\ sec.type \in DOMAIN tables_at
                         THEN [tables_at EXCEPT ![sec.type] = done + 1] ELSE tables_at
  /\ done' = done + 1
  /\ UNCHANGED <<file, opening, segments, hdr_vaddr, memory, func_symbols>>

(* .symtab before .dynsym; the functions it defines, by address.           *)
ReadSymbols ==
  /\ opening = "sections" /\ done = Len(Sections)
  /\ LET chosen == IF tables_at.symtab # 0 THEN tables_at.symtab ELSE tables_at.dynsym
         symbols == IF chosen = 0 THEN {} ELSE Sections[chosen].symbols
     IN  func_symbols' = IF symbols = {} THEN <<>>
                         ELSE SortSeq(SelectSeq(CHOOSE s \in symbols : TRUE, LAMBDA s : s.func), ByVaddr)
  /\ Enter("fallback")
  /\ UNCHANGED <<file, segments, hdr_vaddr, memory, eh_frame_start, eh_frame_end, plt_ranges, tables_at>>

-----------------------------------------------------------------------------
(* Queries.  BytesAt gives the addresses of the bytes, the first segment   *)
(* whose part of the file holds vaddr deciding how many there are.         *)

SegContains(seg, addr, size) ==
  addr >= seg.vaddr /\ addr - seg.vaddr <= seg.memsz /\ size <= seg.memsz - (addr - seg.vaddr)

Backing(vaddr) ==
  {i \in 1..Len(segments) :
     LET seg == segments[i] IN vaddr >= seg.vaddr /\ vaddr - seg.vaddr < seg.filesz}

BytesAt(vaddr, size) ==
  IF Backing(vaddr) = {} THEN {}
  ELSE LET seg == segments[Min(Backing(vaddr))]
           avail == Min({size, seg.filesz - (vaddr - seg.vaddr)})
       IN  vaddr..(vaddr + avail - 1)

-----------------------------------------------------------------------------
(* The way through .eh_frame_hdr: eight bytes of it must be there, and say *)
(* version 1.                                                              *)

HasEhFrame == eh_frame_end > eh_frame_start

HdrIsRead ==
  /\ hdr_vaddr # 0
  /\ Cardinality(BytesAt(hdr_vaddr, 20)) >= 8
  /\ memory[hdr_vaddr] = file.hdr.offset /\ file.hdr.version = 1

(* DecodeEhPtr: absolute, or relative to the field.                        *)
DecodeEhPtr ==
  CASE file.hdr.encoding = "absolute" -> {file.hdr.value}
    [] file.hdr.encoding = "pcrel" -> {hdr_vaddr + 4 + file.hdr.value}
    [] OTHER -> {}

(* Faulty variant: the section reaches to the end of the segment's memory. *)
FallbackEndMemory(seg) == seg.vaddr + seg.memsz

(* Up to the end of the segment's part of the file.                        *)
FallbackEnd(seg) == seg.vaddr + seg.filesz

Fallback ==
  /\ opening = "fallback"
  /\ LET ptr == IF ~HasEhFrame /\ HdrIsRead THEN DecodeEhPtr ELSE {}
         holding == {i \in 1..Len(segments) : \E p \in ptr : SegContains(segments[i], p, 0)}
     IN  IF holding = {} THEN UNCHANGED <<eh_frame_start, eh_frame_end>>
         ELSE LET seg == segments[Min(holding)] IN
              /\ eh_frame_start' \in ptr
              /\ eh_frame_end' = FallbackEnd(seg)
  /\ Enter("opened")
  /\ UNCHANGED <<file, segments, hdr_vaddr, memory, plt_ranges, tables_at, func_symbols>>

ElfNext ==
  \/ ReadPhdr
  \/ PhdrsRead
  \/ Reserve
  \/ MapSegment
  \/ SegmentsMapped
  \/ MapFails
  \/ ReadSection
  \/ ReadSymbols
  \/ Fallback

-----------------------------------------------------------------------------
PageOf(v) == v \div PageSize

Pages(seg) == PageOf(seg.vaddr)..PageOf(seg.vaddr + seg.filesz - 1)

(* No two segments want different pages of the file at one page of memory. *)
LaidOut ==
  \A i, j \in 1..Len(segments) :
    \/ segments[i].filesz = 0 \/ segments[j].filesz = 0
    \/ Pages(segments[i]) \cap Pages(segments[j]) = {}
    \/ segments[i].vaddr - segments[i].offset = segments[j].vaddr - segments[j].offset

(* Every byte that BytesAt hands out is mapped, and in a file whose        *)
(* segments do not collide it is the byte that the file has for its        *)
(* address, up to the last byte of the last, partial page of a segment     *)
(* (the fake load, BytesAt): the disassembler, the LSDA reader and the     *)
(* jump tables read through it unguarded.                                  *)
BytesAtIsTheFile ==
  opening = "opened" =>
    \A v \in DOMAIN memory : \A i \in Backing(v) : \A a \in BytesAt(v, PageSize) :
      /\ memory[a] # Reserved
      /\ LaidOut => memory[a] = segments[i].offset + a - segments[i].vaddr

(* What a linker promises about .eh_frame: it lies in one segment's part   *)
(* of the file, .eh_frame_hdr points to it, and no segment ends where it   *)
(* begins.                                                                 *)
Linked(addr, size) ==
  /\ LaidOut
  /\ \E i \in Backing(addr) : addr + size <= segments[i].vaddr + segments[i].filesz
  /\ HdrIsRead /\ DecodeEhPtr = {addr}
  /\ \A i \in 1..Len(segments) : segments[i].vaddr + segments[i].memsz # addr

(* .eh_frame is found, begins where the linker put it and extends to its   *)
(* last byte at least, and every byte of what was found is mapped: whether *)
(* the name was read or the section headers are gone (Open's fallback      *)
(* through .eh_frame_hdr).  EnumerateFDEs reads the range unguarded.       *)
EhFrameIsFound ==
  opening = "opened" =>
    \A i \in 1..Len(file.sections) :
      LET sec == file.sections[i] IN
      sec.name = ".eh_frame" /\ Placed(sec) /\ Linked(sec.addr, sec.size) =>
        /\ eh_frame_start = sec.addr /\ eh_frame_end >= sec.addr + sec.size
        /\ \A v \in eh_frame_start..(eh_frame_end - 1) : memory[v] >= 0
=============================================================================
