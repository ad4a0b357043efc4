------------------------------ MODULE PEWriter ------------------------------
(***************************************************************************)
(* The PE64 writer (x86x64/pe/pe64.py) behind the linker: section headers  *)
(* and file ranges of the image for a link result, with the .reloc section *)
(* that the writer makes up.  validate.py says what a loader wants.        *)
(***************************************************************************)
EXTENDS Linker

CONSTANTS
  PageSize,            \* of build_base_reloc_blocks
  HeaderBytes, SectionHeaderBytes   \* sizes of the headers

ASSUME WriterAssumption ==
  PageSize \in Nat \ {0} /\ HeaderBytes \in Nat /\ SectionHeaderBytes \in Nat

VARIABLE image   \* the file that was written last
pvars == <<vars, image>>

NoImage == [entries |-> <<>>, headers |-> 0, size |-> 0]
PEInit == Init /\ image = NoImage

(* build_base_reloc_blocks: the size of the directory.                     *)
RelocRvas == {layout[Placed(site[1])].rva + site[2] : site \in result.base_relocs}
RelocPages == {a - (a % PageSize) : a \in RelocRvas}
OddPages ==
  {page \in RelocPages : Cardinality({a \in RelocRvas : a - (a % PageSize) = page}) % 2 = 1}
(* Eight bytes for a page, and two for an entry and for what evens them.   *)
RelocBytes == 8 * Cardinality(RelocPages) + 2 * (Cardinality(RelocRvas) + Cardinality(OddPages))

HasOwn == \E p \in DOMAIN layout : layout[p].name = ".reloc"
Synthetic == RelocBytes > 0 /\ ~HasOwn
LayoutEnd == LET last == layout[Len(layout)] IN last.rva + VirtualSize(sections[last.name])

(* Bytes of a placed section: an own .reloc is replaced by the directory.  *)
Bytes(p) ==
  IF layout[p].name = ".reloc" /\ RelocBytes > 0 THEN RelocBytes ELSE sections[layout[p].name].raw

HeadersEnd ==
  AlignUp(HeaderBytes + SectionHeaderBytes * (Len(layout) + IF Synthetic THEN 1 ELSE 0), FileAlign)

(* Mutant: bytes follow each other without alignment.                      *)
FileRoomUnaligned(p) == IF sections[layout[p].name].bss THEN 0 ELSE Bytes(p)

(* Mutant: rounded down.                                                   *)
FileRoomDown(p) ==
  IF sections[layout[p].name].bss THEN 0 ELSE (Bytes(p) \div FileAlign) * FileAlign

FileRoom(p) == IF sections[layout[p].name].bss THEN 0 ELSE AlignUp(Bytes(p), FileAlign)
FileEnd[p \in 0 .. Len(layout)] == IF p = 0 THEN HeadersEnd ELSE FileEnd[p - 1] + FileRoom(p)
FileOffset(p) == FileEnd[p - 1]

Entry(name, at, vsize, raw, file) ==
  [name |-> name, rva |-> at, vsize |-> Larger(vsize, raw), raw |-> raw, file |-> file]

(* Mutant: behind the last section, not on a page of its own.              *)
RelocRvaEnd == LayoutEnd
RelocRva == AlignUp(LayoutEnd, SectionAlign)

Entries ==
  [p \in DOMAIN layout |->
     LET s == sections[layout[p].name]
     IN  Entry(layout[p].name, layout[p].rva, VirtualSize(s), Bytes(p),
               IF s.bss THEN 0 ELSE FileOffset(p))]
  \o IF Synthetic
       THEN <<Entry(".reloc", RelocRva, RelocBytes, RelocBytes, FileOffset(Len(layout) + 1))>>
       ELSE <<>>

(* Mutant: the size that the linker gave its layout.                       *)
ImageSizeLayout(entries) == AlignUp(LayoutEnd, SectionAlign)

Highest(S) == CHOOSE x \in S : \A y \in S : y <= x
ImageSize(entries) ==
  AlignUp(Highest({entries[p].rva + entries[p].vsize : p \in DOMAIN entries}), SectionAlign)

(* build: what is not linked, or has no section, is not written.           *)
Write ==
  /\ phase = "linked" /\ layout # <<>>
  /\ image' = [entries |-> Entries, headers |-> HeadersEnd, size |-> ImageSize(Entries)]
  /\ UNCHANGED vars

PENext == (Next /\ UNCHANGED image) \/ Write
PESpec == PEInit /\ [][PENext]_pvars

(***************************************************************************)
(* Properties: what validate_pe asks of an image.                          *)
(***************************************************************************)
entry == image.entries

PETypeOK ==
  /\ image.headers \in Nat /\ image.size \in Nat
  /\ \A p \in DOMAIN entry :
       /\ entry[p].rva \in Nat /\ entry[p].raw \in 0 .. entry[p].vsize
       /\ entry[p].rva % SectionAlign = 0 /\ entry[p].file % FileAlign = 0

(* The bytes of each section are in the file, behind the headers, and no   *)
(* two sections share any.                                                 *)
RawKept ==
  \A p \in DOMAIN entry : entry[p].raw > 0 =>
    /\ entry[p].file >= image.headers
    /\ \A q \in DOMAIN entry : q # p /\ entry[q].raw > 0 =>
         Apart(entry[p].file, entry[p].raw, entry[q].file, entry[q].raw)

(* The sections of the image do not overlap in memory and lie within its   *)
(* size, and the headers end before the first.                             *)
EntriesApart ==
  \A p \in DOMAIN entry :
    /\ image.headers <= entry[p].rva /\ entry[p].rva + entry[p].vsize <= image.size
    /\ \A q \in DOMAIN entry : q # p =>
         Apart(entry[p].rva, entry[p].vsize, entry[q].rva, entry[q].vsize)

(* Sections tile the address space: each begins on the page where the one  *)
(* before it ends.                                                         *)
SectionsTile ==
  LET seen == {p \in DOMAIN entry : entry[p].vsize > 0}
  IN  \A p, q \in seen : p < q /\ (\A m \in seen : m <= p \/ q <= m) =>
        entry[q].rva = AlignUp(entry[p].rva + entry[p].vsize, SectionAlign)
=============================================================================
