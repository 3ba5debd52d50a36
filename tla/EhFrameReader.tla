--------------------------- MODULE EhFrameReader ---------------------------
(***************************************************************************)
(* Reading a .eh_frame section from its bytes: EnumerateFDEs lists the FDE *)
(* records, and ReadFDE has Decoder::ParseFDE and RunInstructions turn     *)
(* each into calls of the visitor, TableBuilder (eh-frame-reader.h,        *)
(* eh-frame-reader.cc, ReadAllFDEs of unwind-check.cc).  What TableBuilder *)
(* makes of the calls is CFITable; here they are recorded, with the bias   *)
(* taken off the addresses as TableBuilder does.  It never asks the        *)
(* decoder to stop.                                                        *)
(*                                                                         *)
(* An exception thrown anywhere inside ParseFDE fails that FDE alone.      *)
(* FindFDE, the lookup by .eh_frame_hdr, is not used by the tool.          *)
(***************************************************************************)
EXTENDS ByteReader

VARIABLES
  eh_frame,          \* <<start, end>> of the section, link-time addresses
  reading,             \* "enumerate", "read" or "listed"
  pos,               \* EnumerateFDEs' position, a live address
  addrs,             \* FDE records found, as link-time addresses
  enumerate_error,
  d,                 \* Decoder's state and ParseFDE's locals for the FDE being read
  cfis               \* FDEs read: [at, ok, calls]

reader_vars == <<image, eh_frame, reading, pos, addrs, enumerate_error, d, cfis>>

Start == Wrap(eh_frame[1] + bias)

End == Wrap(eh_frame[2] + bias)

(* 0xffffffff, a 64-bit record.                                            *)
kEscape == 2^(8 * Width.u32) - 1

MakeSlice(live) ==
  IF Start <= live /\ live <= End THEN [at |-> live, left |-> End - live] ELSE NoSlice

-----------------------------------------------------------------------------
(* EnumerateFDEs                                                           *)

ReadU32(live) == ReadObject(MakeSlice(live), Width.u32).value

NextRecord == Wrap(pos + Width.u32 + ReadU32(pos))

AtRecord == pos + 2 * Width.u32 <= End /\ ReadU32(pos) # 0

Overruns == ReadU32(pos) = kEscape \/ NextRecord <= pos \/ NextRecord > End

EnumerateRecord ==
  /\ reading = "enumerate"
  /\ AtRecord /\ ~Overruns
  /\ addrs' = IF ReadU32(pos + Width.u32) # 0 THEN Append(addrs, pos - bias) ELSE addrs
  /\ pos' = NextRecord
  /\ UNCHANGED <<image, eh_frame, reading, enumerate_error, d, cfis>>

(* The terminator, the end of the section, or a record that runs past it.  *)
EnumerateStops ==
  /\ reading = "enumerate"
  /\ AtRecord => Overruns
  /\ enumerate_error' = AtRecord
  /\ reading' = "read"
  /\ UNCHANGED <<image, eh_frame, pos, addrs, d, cfis>>

-----------------------------------------------------------------------------
(* ParseFDE.  Each stage maps the decoder's state to the next one.         *)

NoDecoder ==
  [stage |-> "idle", at |-> 0, fde |-> NoSlice, cie |-> NoSlice, aug |-> NoSlice, aug_str |-> <<>>,
   z |-> FALSE, code_align |-> 0, data_align |-> 0, return_reg |-> 0,
   fde_ptr_enc |-> DW_EH_PE_absptr, lsda_ptr_enc |-> DW_EH_PE_omitted,
   current_loc |-> 0, function_end |-> 0, calls |-> <<>>]

Thrown(x) == [x EXCEPT !.stage = "thrown"]

Call(x, call) == [x EXCEPT !.calls = Append(@, call)]

(* Faulty variant: the slice is not cut at the record's length.            *)
ReadFDEHeaderUncut(x) ==
  LET len == ReadObject(MakeSlice(x.at), Width.u32)
      offset == ReadObject(len.rest, Width.u32)
      cie == MakeSlice(Wrap(offset.rest.at - Width.u32 - offset.value))
  IN  IF len.value \in {0, kEscape} \/ ~Good(offset.rest) \/ ~Good(cie) THEN Thrown(x)
      ELSE [x EXCEPT !.stage = "cie", !.fde = offset.rest, !.cie = cie]

ReadFDEHeader(x) ==
  LET len == ReadObject(MakeSlice(x.at), Width.u32)
      offset == ReadObject(TruncateSlice(len.rest, len.value), Width.u32)
      cie == MakeSlice(Wrap(offset.rest.at - Width.u32 - offset.value))
  IN  IF len.value \in {0, kEscape} \/ ~Good(offset.rest) \/ ~Good(cie) THEN Thrown(x)
      ELSE [x EXCEPT !.stage = "cie", !.fde = offset.rest, !.cie = cie]

kMaxAugString == 16

(* ReadASCIIZ: the length of the string, or none.                          *)
ASCIIZ(s) ==
  {n \in 0..(kMaxAugString - 1) :
     n < s.left /\ Byte(s.at + n) = 0 /\ \A i \in 0..(n - 1) : Byte(s.at + i) # 0}

ReadCIEHeader(x) ==
  LET len == ReadObject(x.cie, Width.u32)
      id == ReadObject(TruncateSlice(len.rest, len.value), Width.u32)
      version == ReadObject(id.rest, Width.u8)
      n == CHOOSE k \in ASCIIZ(version.rest) : TRUE
      code_align == ReadUleb128(Skip(version.rest, n + 1))
      data_align == ReadSleb128(code_align.rest)
      return_reg == ReadObject(data_align.rest, Width.u8)
  IN  IF \/ len.value = kEscape \/ id.value # 0 \/ version.value # 1
         \/ ASCIIZ(version.rest) = {}
         \/ code_align.value = 0 \/ ~Good(return_reg.rest)
      THEN Thrown(x)
      ELSE [x EXCEPT !.stage = "augmentation",
                     !.aug_str = [i \in 1..n |-> Byte(version.rest.at + i - 1)],
                     !.code_align = code_align.value, !.data_align = data_align.value,
                     !.return_reg = return_reg.value, !.cie = return_reg.rest]

Char == [z |-> 122, R |-> 82, L |-> 76, S |-> 83, B |-> 66, P |-> 80]

ReadAugmentation(x) ==
  LET len == ReadUleb128(x.cie)
      data == ReadSubslice(len.rest, len.value)
  IN  IF x.aug_str = <<>> THEN [x EXCEPT !.stage = "range"]
      ELSE IF Head(x.aug_str) # Char.z \/ ~Good(data.rest) THEN Thrown(x)
      ELSE [x EXCEPT !.stage = "aug_chars", !.z = TRUE, !.aug_str = Tail(@),
                     !.aug = data.value, !.cie = data.rest]

(* One character of the augmentation string; 'R' ends the loop.            *)
ReadAugChar(x) ==
  LET ch == Head(x.aug_str)
      y == [x EXCEPT !.aug_str = Tail(@)]
      enc == ReadObject(x.aug, Width.u8)
      personality == ReadEncodedPtr(enc.rest, enc.value % 128)
  IN  IF x.aug_str = <<>> THEN [x EXCEPT !.stage = "range"]
      ELSE IF ch = Char.S THEN Call(y, <<"HandleAugS">>)
      ELSE IF ch = Char.B THEN y
      ELSE IF ch \notin {Char.R, Char.L, Char.P} \/ ~Good(enc.rest) THEN Thrown(x)
      ELSE IF ch = Char.R THEN [y EXCEPT !.stage = "range", !.fde_ptr_enc = enc.value, !.aug = enc.rest]
      ELSE IF ch = Char.L THEN [y EXCEPT !.lsda_ptr_enc = enc.value, !.aug = enc.rest]
      ELSE IF Good(personality.rest) THEN [y EXCEPT !.aug = personality.rest]
      ELSE Thrown(x)

(* The range covered, and StartFDE.                                        *)
ReadRange(x) ==
  LET begin == ReadEncodedPtr(x.fde, x.fde_ptr_enc)
      range == ReadEncodedPtr(begin.rest, x.fde_ptr_enc % 16)
      end == Wrap(begin.value + range.value)
  IN  IF ~Good(range.rest) THEN Thrown(x)
      ELSE [Call(x, <<"StartFDE", x.return_reg, Wrap(begin.value - bias), Wrap(end - bias)>>)
              EXCEPT !.stage = "cie_insns", !.fde = range.rest,
                     !.current_loc = begin.value, !.function_end = end]

(* TableBuilder::HandleLSDA: a null pointer is no LSDA.                    *)
HandleLSDA(x, ptr) == IF ptr = 0 THEN x ELSE Call(x, <<"HandleLSDA", Wrap(ptr - bias)>>)

(* The FDE's own augmentation data, and AfterCIE.                          *)
ReadFDEAugmentation(x) ==
  LET len == ReadUleb128(x.fde)
      data == ReadSubslice(len.rest, len.value)
      lsda == ReadEncodedPtr(data.value, x.lsda_ptr_enc)
      after(y) == [Call(y, <<"AfterCIE">>) EXCEPT !.stage = "fde_insns"]
  IN  IF ~x.z THEN after(x)
      ELSE IF ~Good(data.rest) THEN Thrown(x)
      ELSE IF x.lsda_ptr_enc = DW_EH_PE_omitted THEN after([x EXCEPT !.fde = data.rest])
      ELSE IF ~Good(lsda.rest) THEN Thrown(x)
      ELSE after(HandleLSDA([x EXCEPT !.fde = data.rest], lsda.value))

-----------------------------------------------------------------------------
(* RunInstructions.  The three primary opcodes hold an operand in their    *)
(* low six bits.                                                           *)

DW_CFA_advance_loc == 64
DW_CFA_offset == 128
DW_CFA_restore == 192
DW_CFA_set_loc == 1

Opcode(byte) == IF byte >= 64 THEN byte - (byte % 64) ELSE byte

(* Opcode -> what its operands look like.                                  *)
Operands ==
  (0 :> <<>>) @@ (DW_CFA_advance_loc :> <<>>) @@ (DW_CFA_offset :> <<"uleb">>) @@ (DW_CFA_restore :> <<>>)
  @@ (DW_CFA_set_loc :> <<"ptr">>) @@ (2 :> <<"u8">>) @@ (3 :> <<"u16">>) @@ (4 :> <<"u32">>)
  @@ (5 :> <<"uleb", "uleb">>) @@ (6 :> <<"uleb">>) @@ (7 :> <<"uleb">>) @@ (8 :> <<"uleb">>)
  @@ (9 :> <<"uleb", "uleb">>) @@ (10 :> <<>>) @@ (11 :> <<>>) @@ (12 :> <<"uleb", "uleb">>)
  @@ (13 :> <<"uleb">>) @@ (14 :> <<"uleb">>) @@ (15 :> <<"block">>) @@ (16 :> <<"uleb", "block">>)
  @@ (17 :> <<"uleb", "sleb">>) @@ (18 :> <<"uleb", "sleb">>) @@ (19 :> <<"sleb">>)
  @@ (20 :> <<"uleb", "uleb">>) @@ (21 :> <<"uleb", "sleb">>) @@ (22 :> <<"uleb", "block">>)
  @@ (45 :> <<>>) @@ (46 :> <<"uleb">>)

Moves == {DW_CFA_advance_loc, DW_CFA_set_loc, 2, 3, 4}

(* Opcode -> the visitor's handler.                                        *)
Handler ==
  (DW_CFA_offset :> "HandleOffset") @@ (5 :> "HandleOffset") @@ (17 :> "HandleOffset")
  @@ (DW_CFA_restore :> "HandleRestore") @@ (6 :> "HandleRestore")
  @@ (7 :> "HandleUndefined") @@ (8 :> "HandleSameValue") @@ (9 :> "HandleRegister")
  @@ (10 :> "HandleRememberState") @@ (11 :> "HandleRestoreState")
  @@ (12 :> "HandleDefCFA") @@ (18 :> "HandleDefCFA") @@ (13 :> "HandleDefCFAReg")
  @@ (14 :> "HandleDefCFAOffset") @@ (19 :> "HandleDefCFAOffset") @@ (15 :> "HandleDefCFAExpression")
  @@ (16 :> "HandleExpression") @@ (20 :> "HandleValOffset") @@ (21 :> "HandleValOffset")
  @@ (22 :> "HandleValExpression")

(* Opcodes whose last operand is multiplied by the data alignment.         *)
Scaled == {DW_CFA_offset, 5, 17, 18, 19, 20, 21}

ReadOperand(s, kind, x) ==
  CASE kind = "uleb" -> ReadUleb128(s)
    [] kind = "sleb" -> ReadSleb128(s)
    [] kind = "ptr" -> ReadEncodedPtr(s, x.fde_ptr_enc)
    [] kind = "block" -> LET len == ReadUleb128(s) IN
                         [value |-> len.value, rest |-> ReadSubslice(len.rest, len.value).rest]
    [] OTHER -> ReadObject(s, Width[kind])

ReadOperands(s, kinds, x) ==
  FoldLeft(LAMBDA acc, kind : LET read == ReadOperand(acc.rest, kind, x) IN
                              [values |-> Append(acc.values, read.value), rest |-> read.rest],
           [values |-> <<>>, rest |-> s], kinds)

(* The visitor hears uintptr_t; an offset is a signed product.             *)
Arguments(op, values, x) ==
  [i \in 1..Len(values) |->
     IF i = Len(values) /\ op \in Scaled THEN Mul(Wrap(values[i]), Wrap(x.data_align)) ELSE Wrap(values[i])]

DoSetLoc(x, loc) == [Call(x, <<"HandleSetLoc", Wrap(loc - bias)>>) EXCEPT !.current_loc = loc]

(* An instruction of the CIE may not move, one of the FDE not backwards    *)
(* by DW_CFA_set_loc.                                                      *)
Move(x, op, operand) ==
  IF x.stage = "cie_insns" \/ (op = DW_CFA_set_loc /\ operand < x.current_loc) THEN Thrown(x)
  ELSE DoSetLoc(x, IF op = DW_CFA_set_loc THEN operand
                   ELSE Wrap(x.current_loc + Mul(operand, x.code_align)))

Execute(x, op, values) ==
  IF op \in Moves THEN Move(x, op, values[1])
  ELSE IF op \in DOMAIN Handler THEN Call(x, <<Handler[op]>> \o Arguments(op, values, x))
  ELSE x

(* One instruction of slice x[stream].                                     *)
RunInstruction(x, stream) ==
  LET byte == ReadObject(x[stream], Width.u8)
      op == Opcode(byte.value)
      own == IF byte.value >= 64 THEN <<byte.value % 64>> ELSE <<>>
      read == ReadOperands(byte.rest, Operands[op], x)
  IN  IF op \notin DOMAIN Operands THEN Thrown(x)
      ELSE IF ~Good(read.rest) THEN Thrown(x)
      ELSE Execute([x EXCEPT ![stream] = read.rest], op, own \o read.values)

RunCIE(x) == IF x.cie.left = 0 THEN [x EXCEPT !.stage = "fde_aug"] ELSE RunInstruction(x, "cie")

(* The last row is closed at the end of the function.                      *)
RunFDE(x) ==
  IF x.fde.left = 0 THEN [DoSetLoc(x, x.function_end) EXCEPT !.stage = "done"] ELSE RunInstruction(x, "fde")

-----------------------------------------------------------------------------
(* ReadAllFDEs: one FDE after the other, each caught on its own.           *)

BeginFDE ==
  /\ reading = "read" /\ d.stage = "idle"
  /\ Len(cfis) < Len(addrs)
  /\ d' = [NoDecoder EXCEPT !.stage = "fde", !.at = Wrap(addrs[Len(cfis) + 1] + bias)]
  /\ UNCHANGED <<image, eh_frame, reading, pos, addrs, enumerate_error, cfis>>

Stage(name, next) ==
  /\ reading = "read" /\ d.stage = name
  /\ d' = next
  /\ UNCHANGED <<image, eh_frame, reading, pos, addrs, enumerate_error, cfis>>

ParseFDE ==
  \/ Stage("fde", ReadFDEHeader(d))
  \/ Stage("cie", ReadCIEHeader(d))
  \/ Stage("augmentation", ReadAugmentation(d))
  \/ Stage("aug_chars", ReadAugChar(d))
  \/ Stage("range", ReadRange(d))
  \/ Stage("cie_insns", RunCIE(d))
  \/ Stage("fde_aug", ReadFDEAugmentation(d))
  \/ Stage("fde_insns", RunFDE(d))

EndFDE ==
  /\ reading = "read" /\ d.stage \in {"done", "thrown"}
  /\ cfis' = Append(cfis, [at |-> d.at - bias, ok |-> d.stage = "done",
                           calls |-> IF d.stage = "done" THEN d.calls ELSE <<>>])
  /\ d' = NoDecoder
  /\ UNCHANGED <<image, eh_frame, reading, pos, addrs, enumerate_error>>

AllRead ==
  /\ reading = "read" /\ d.stage = "idle"
  /\ Len(cfis) = Len(addrs)
  /\ reading' = "listed"
  /\ UNCHANGED <<image, eh_frame, pos, addrs, enumerate_error, d, cfis>>

ReaderNext ==
  \/ EnumerateRecord
  \/ EnumerateStops
  \/ BeginFDE
  \/ ParseFDE
  \/ EndFDE
  \/ AllRead

ReaderInit ==
  /\ reading = "enumerate"
  /\ pos = Start
  /\ addrs = <<>>
  /\ enumerate_error = FALSE
  /\ d = NoDecoder
  /\ cfis = <<>>
=============================================================================
