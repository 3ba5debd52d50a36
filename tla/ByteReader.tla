---------------------------- MODULE ByteReader ----------------------------
(***************************************************************************)
(* Reading fields out of mapped bytes: the slices, LEB128 numbers and      *)
(* encoded pointers of eh-frame-reader.h, and LSDACursor of lsda-reader.cc.*)
(*                                                                         *)
(* image is what ELFImage has mapped: link-time address -> byte.  The file *)
(* is loaded at a bias, and eh-frame-reader.h works on the biased ("live") *)
(* addresses.  A slice is [at, left]: a live address and the number of     *)
(* bytes from there on.  A read gives [value, rest]; a read that throws    *)
(* leaves NoSlice, from which every further read throws.                   *)
(*                                                                         *)
(* The widths of the fields are a parameter, Width, in bytes: the code has *)
(* 1, 2, 4 and 8.  Nothing depends on more than their order.               *)
(***************************************************************************)
EXTENDS Integers, FiniteSets, SequencesExt

CONSTANTS
  Width,     \* [u8, u16, u32, u64]
  bias       \* live address = link-time address + bias

VARIABLE image

WordLimit == 2^(8 * Width.u64)

Wrap(x) == x % WordLimit

Digit(x, i) == (x \div 256^i) % 256

(* uintptr_t multiplication, byte by byte so that TLC's integers hold it.  *)
Mul(x, y) ==
  LET n == Width.u64
      term(p) == ((Digit(x, p[1]) * Digit(y, p[2])) % 256^(n - p[1] - p[2])) * 256^(p[1] + p[2])
  IN  Wrap(MapThenSumSet(term, {p \in (0..(n - 1)) \X (0..(n - 1)) : p[1] + p[2] < n}))

-----------------------------------------------------------------------------
NoSlice == [at |-> 0, left |-> -1]

Good(s) == s.left >= 0

Throws == [value |-> 0, rest |-> NoSlice]

Byte(live) == image[live - bias]

Skip(s, n) == [at |-> s.at + n, left |-> s.left - n]

(* A little-endian number of n bytes.                                      *)
ReadObject(s, n) ==
  IF s.left < n THEN Throws
  ELSE [value |-> MapThenSumSet(LAMBDA i : Byte(s.at + i) * 256^i, 0..(n - 1)), rest |-> Skip(s, n)]

SignExtended(v, n) == IF v >= 2^(8 * n - 1) THEN v - 2^(8 * n) ELSE v

(* n bytes as a slice of their own.                                        *)
ReadSubslice(s, n) ==
  IF s.left < n THEN [value |-> NoSlice, rest |-> NoSlice]
  ELSE [value |-> [at |-> s.at, left |-> n], rest |-> Skip(s, n)]

TruncateSlice(s, n) == ReadSubslice(s, n).value

-----------------------------------------------------------------------------
(* LEB128: seven bits a byte, the lowest first, 128 meaning that another   *)
(* byte follows.  The loops give up once the shift reaches the word.       *)
Payload(s, i) == Byte(s.at + i) % 128

LEBLengths(s) ==
  {n \in 1..s.left : /\ 7 * (n - 1) < 8 * Width.u64
                     /\ Byte(s.at + n - 1) < 128
                     /\ \A i \in 0..(n - 2) : Byte(s.at + i) >= 128}

LEBValue(s, n) == MapThenSumSet(LAMBDA i : Payload(s, i) * 2^(7 * i), 0..(n - 1))

(* No bit may be shifted out of the word.                                  *)
ReadUleb128(s) ==
  LET fitting == {n \in LEBLengths(s) : LEBValue(s, n) < WordLimit}
  IN  IF fitting = {} THEN Throws
      ELSE LET n == CHOOSE k \in fitting : TRUE IN [value |-> LEBValue(s, n), rest |-> Skip(s, n)]

(* The bits of the last byte beyond the word must repeat its sign.         *)
SlebValue(s, n) ==
  IF Payload(s, n - 1) >= 64 THEN LEBValue(s, n) - 2^(7 * n) ELSE LEBValue(s, n)

ReadSleb128(s) ==
  LET fitting == {n \in LEBLengths(s) : -WordLimit <= 2 * SlebValue(s, n) /\ 2 * SlebValue(s, n) < WordLimit}
  IN  IF fitting = {} THEN Throws
      ELSE LET n == CHOOSE k \in fitting : TRUE IN [value |-> SlebValue(s, n), rest |-> Skip(s, n)]

-----------------------------------------------------------------------------
DW_EH_PE_absptr == 0
DW_EH_PE_uleb128 == 1
DW_EH_PE_udata2 == 2
DW_EH_PE_udata4 == 3
DW_EH_PE_udata8 == 4
DW_EH_PE_sdata4 == 11
DW_EH_PE_sdata8 == 12
DW_EH_PE_pcrel == 16
DW_EH_PE_omitted == 255

Format(encoding) == encoding % 16

Application(encoding) == encoding - Format(encoding)

(* The number an encoded pointer holds.                                    *)
ReadPointer(s, encoding) ==
  LET wide == Format(encoding) \in {DW_EH_PE_udata8, DW_EH_PE_sdata8, DW_EH_PE_absptr}
      read == ReadObject(s, IF wide THEN Width.u64 ELSE Width.u32)
  IN  IF wide \/ Format(encoding) = DW_EH_PE_udata4 THEN read
      ELSE IF Format(encoding) = DW_EH_PE_sdata4 /\ Good(read.rest)
      THEN [read EXCEPT !.value = SignExtended(@, Width.u32)]
      ELSE Throws

(* Decoder::ReadEncodedPtr: relative to its own live address, or absolute. *)
ReadEncodedPtr(s, encoding) ==
  IF Application(encoding) \notin {0, DW_EH_PE_pcrel} THEN Throws
  ELSE LET read == ReadPointer(s, encoding) IN
       [read EXCEPT !.value = Wrap(@ + IF Application(encoding) = DW_EH_PE_pcrel THEN s.at ELSE 0)]

-----------------------------------------------------------------------------
(* LSDACursor, at link-time addresses: BytesAt gives what is mapped there. *)

CursorAt(vaddr) ==
  [at |-> Wrap(vaddr + bias),
   left |-> IF vaddr \in DOMAIN image THEN Cardinality({a \in DOMAIN image : a >= vaddr}) ELSE 0]

(* Bits beyond the word are lost here.                                     *)
CursorUleb128(s) ==
  LET ns == LEBLengths(s)
  IN  IF ns = {} THEN Throws
      ELSE LET n == CHOOSE k \in ns : TRUE IN [value |-> Wrap(LEBValue(s, n)), rest |-> Skip(s, n)]

ReadEncoded(s, encoding) ==
  LET read == IF Format(encoding) = DW_EH_PE_udata2 THEN ReadObject(s, Width.u16) ELSE ReadPointer(s, encoding) IN
  IF Format(encoding) = DW_EH_PE_uleb128 THEN CursorUleb128(s)
  ELSE IF Application(encoding) \notin {0, DW_EH_PE_pcrel} THEN Throws
  ELSE [read EXCEPT !.value = Wrap(@ + IF Application(encoding) = DW_EH_PE_pcrel THEN s.at - bias ELSE 0)]
=============================================================================
