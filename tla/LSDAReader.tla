---------------------------- MODULE LSDAReader ----------------------------
(***************************************************************************)
(* The call-site tables of the FDEs that EhFrameReader read: for each with *)
(* an LSDA, ReadLSDACallSites (lsda-reader.cc) reads the header and the    *)
(* table, and SetupCallSites (fde-checker.cc) keeps the call sites whose   *)
(* landing pad is inside the FDE.  An LSDA that does not parse fails that  *)
(* FDE's table alone.                                                      *)
(***************************************************************************)
EXTENDS EhFrameReader

VARIABLES
  l,        \* ReadLSDACallSites' locals
  tables    \* per FDE of cfis: [ok, sites], a site being [start, end, landing_pad]

lsda_vars == <<l, tables>>

NoLSDA ==
  [stage |-> "idle", cur |-> NoSlice, lpstart |-> 0, encoding |-> 0,
   table_end |-> 0, sites |-> <<>>]

CallsOf(cfi, name) == SelectSeq(cfi.calls, LAMBDA c : c[1] = name)

PCBegin(cfi) == CallsOf(cfi, "StartFDE")[1][3]

PCEnd(cfi) == CallsOf(cfi, "StartFDE")[1][4]

(* CFI::lsda_addr, 0 when there is none.                                   *)
LSDAAddr(cfi) == IF CallsOf(cfi, "HandleLSDA") = <<>> THEN 0 ELSE CallsOf(cfi, "HandleLSDA")[1][2]

Current == cfis[Len(tables) + 1]

Idle == reading = "listed" /\ l.stage = "idle" /\ Len(tables) < Len(cfis)

NoCallSites ==
  /\ Idle
  /\ ~Current.ok \/ LSDAAddr(Current) = 0
  /\ tables' = Append(tables, [ok |-> TRUE, sites |-> <<>>])
  /\ UNCHANGED <<reader_vars, l>>

(* The header.  The type table is not read, only the offset to it.         *)
ReadLSDAHeader ==
  /\ Idle
  /\ Current.ok /\ LSDAAddr(Current) # 0
  /\ LET start == ReadObject(CursorAt(LSDAAddr(Current)), Width.u8)
         lpstart == IF start.value = DW_EH_PE_omitted THEN [value |-> PCBegin(Current), rest |-> start.rest]
                    ELSE ReadEncoded(start.rest, start.value)
         type == ReadObject(lpstart.rest, Width.u8)
         ttype == IF type.value = DW_EH_PE_omitted THEN type ELSE CursorUleb128(type.rest)
         encoding == ReadObject(ttype.rest, Width.u8)
         length == CursorUleb128(encoding.rest)
     IN  l' = IF ~Good(length.rest) THEN [NoLSDA EXCEPT !.stage = "thrown"]
              ELSE [stage |-> "sites", cur |-> length.rest,
                    lpstart |-> lpstart.value, encoding |-> encoding.value,
                    table_end |-> Wrap(length.rest.at - bias + length.value), sites |-> <<>>]
  /\ UNCHANGED <<reader_vars, tables>>

(* Faulty variant: a call site without a landing pad is kept.              *)
SitesKept(x, start, length, pad) ==
  Append(x.sites, [start |-> Wrap(x.lpstart + start), end |-> Wrap(x.lpstart + start + length),
                   landing_pad |-> Wrap(x.lpstart + pad)])

(* Sites without a landing pad are dropped.                                *)
Sites(x, start, length, pad) ==
  IF pad = 0 THEN x.sites
  ELSE Append(x.sites, [start |-> Wrap(x.lpstart + start), end |-> Wrap(x.lpstart + start + length),
                        landing_pad |-> Wrap(x.lpstart + pad)])

InTable == l.cur.at - bias < l.table_end

(* One entry: start, length, landing pad and the unused action.            *)
ReadCallSite ==
  /\ l.stage = "sites" /\ InTable
  /\ LET start == ReadEncoded(l.cur, l.encoding)
         length == ReadEncoded(start.rest, l.encoding)
         pad == ReadEncoded(length.rest, l.encoding)
         action == CursorUleb128(pad.rest)
     IN  l' = IF ~Good(action.rest) THEN [l EXCEPT !.stage = "thrown"]
              ELSE [l EXCEPT !.cur = action.rest, !.sites = Sites(l, start.value, length.value, pad.value)]
  /\ UNCHANGED <<reader_vars, tables>>

(* Sorted by start; of two sites that start together either may be first.  *)
ByStart(a, b) == a.start < b.start

SortedSites(sites) == {SortSeq(sites, ByStart), SortSeq(Reverse(sites), ByStart)}

SetupCallSites ==
  /\ l.stage = "sites" /\ ~InTable
  /\ \E s \in SortedSites(l.sites) :
       tables' = Append(tables,
         [ok |-> TRUE,
          sites |-> SelectSeq(s, LAMBDA site : PCBegin(Current) <= site.landing_pad
                                               /\ site.landing_pad < PCEnd(Current))])
  /\ l' = NoLSDA
  /\ UNCHANGED reader_vars

LSDAFails ==
  /\ l.stage = "thrown"
  /\ tables' = Append(tables, [ok |-> FALSE, sites |-> <<>>])
  /\ l' = NoLSDA
  /\ UNCHANGED reader_vars

LSDANext ==
  \/ NoCallSites
  \/ ReadLSDAHeader
  \/ ReadCallSite
  \/ SetupCallSites
  \/ LSDAFails

LSDAInit == l = NoLSDA /\ tables = <<>>
=============================================================================
