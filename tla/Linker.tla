------------------------------- MODULE Linker -------------------------------
(***************************************************************************)
(* The linker (x86x64/core): object files are merged section by section    *)
(* and symbol by symbol, the sections are placed, and every reference gets *)
(* the value of its symbol.  A driver adds objects and links again, at     *)
(* another image base or with more code.                                   *)
(*                                                                         *)
(* Bytes are abstracted to sizes and to the fields that relocations fill:  *)
(* contents maps a field <<section, offset>> to its value.                 *)
(***************************************************************************)
EXTENDS Integers, Sequences, FiniteSets

CONSTANTS
  Pool,          \* object files the driver may add
  Absolutes,     \* name -> value, of define_absolute
  SectionOrder,  \* all section names, in the order of _order_key
  ImportOrder,   \* all import symbols, by DLL and name
  SectionAlign, FileAlign, HeadersSize,
  Bases,         \* image bases the driver links at
  Max16, Max32, Max64,   \* the largest values of fields
  MaxObjects, MaxLinks   \* bounds on objects and on calls of link

Kinds == {"ABS64", "ABS32", "RVA32", "REL32", "REL8", "SECREL32", "SECTION16"}

SymbolKinds == {"local", "global", "absolute", "import", "undefined"}

Relocations == [off : Nat, kind : Kinds, sym : STRING, add : Int, adj : Int]
ObjectSections == [name : STRING, bss : BOOLEAN, align : Nat \ {0}, raw : Nat, virt : Nat,
                   relocs : SUBSET Relocations]
ObjectSymbols == [name : STRING, kind : SymbolKinds, sec : STRING, val : Int,
                  more : Nat]   \* more: size and origin

(* An object file as ObjectFile and Section let it be built.               *)
IsObject(o) ==
  /\ o.sections \in Seq(ObjectSections) /\ o.symbols \in Seq(ObjectSymbols)
  /\ \A i \in DOMAIN o.sections :
       /\ IsFiniteSet(o.sections[i].relocs)
       /\ \A r \in o.sections[i].relocs : r.off < o.sections[i].raw
  /\ \A i \in DOMAIN o.symbols : o.symbols[i].kind \in {"local", "global"} =>
       \E j \in DOMAIN o.sections : o.sections[j].name = o.symbols[i].sec
  /\ \A i, j \in DOMAIN o.sections : o.sections[i].name = o.sections[j].name => i = j
  /\ \A i, j \in DOMAIN o.symbols : o.symbols[i].name = o.symbols[j].name => i = j

(* The orders know every section and every import.                         *)
Ordered(o) ==
  /\ \A i \in DOMAIN o.sections : \E p \in DOMAIN SectionOrder : SectionOrder[p] = o.sections[i].name
  /\ \A i \in DOMAIN o.symbols : o.symbols[i].kind = "import" =>
       \E p \in DOMAIN ImportOrder : ImportOrder[p] = o.symbols[i].name

ASSUME LinkerAssumption ==
  /\ \A o \in Pool : IsObject(o) /\ Ordered(o)
  /\ \A a \in DOMAIN Absolutes : Absolutes[a] \in Int
  /\ SectionOrder \in Seq(STRING) /\ \E p \in DOMAIN SectionOrder : SectionOrder[p] = ".idata"
  /\ IsFiniteSet(DOMAIN ImportOrder) /\ DOMAIN ImportOrder \subseteq Nat
  /\ SectionAlign \in Nat \ {0} /\ FileAlign \in Nat \ {0} /\ HeadersSize \in Nat
  /\ Bases \subseteq Nat /\ Max16 \in Nat /\ Max32 \in Nat /\ Max64 \in Nat
  /\ MaxObjects \in Nat /\ MaxLinks \in Nat

VARIABLES
  objects, image_base,   \* inputs of the Linker
  phase,      \* where link() is: "idle", "sections", "symbols", "iat",
              \* "layout", "apply", "linked", or the error it raised
  k, n,       \* the object, and its section or symbol, that is next
  sections,   \* merged: name -> section
  offsets,    \* <<object, section name>> -> start of its contribution
  table,      \* name -> symbol
  slots,      \* import symbol -> offset in .idata
  layout,     \* the sections that have been placed
  rva, file_off,
  result,     \* the LinkResult
  before,     \* history: the result before
  links       \* calls of link()

inputs == <<objects, image_base, links, before>>
vars == <<inputs, phase, k, n, sections, offsets, table, slots, layout, rva, file_off, result>>

AlignUp(v, b) == v + ((-v) % b)
Larger(a, b) == IF a > b THEN a ELSE b
VirtualSize(s) == Larger(s.virt, s.raw)
(* A dictionary with one more entry, or with another value for one of its. *)
Put(d, key, value) == [x \in DOMAIN d \union {key} |-> IF x = key THEN value ELSE d[x]]
NoResult == [objects |-> <<>>, base |-> 0, addresses |-> <<>>, contents |-> <<>>,
             base_relocs |-> {}]

Init ==
  /\ objects = <<>> /\ image_base \in Bases /\ phase = "idle" /\ k = 1 /\ n = 1
  /\ sections = <<>> /\ offsets = <<>> /\ table = <<>> /\ slots = <<>>
  /\ layout = <<>> /\ rva = 0 /\ file_off = 0
  /\ result = NoResult /\ before = NoResult /\ links = 0

(***************************************************************************)
(* The driver.                                                             *)
(***************************************************************************)
Errors == {"duplicate", "undefined", "range"}
Returned == phase \in {"idle", "linked"} \union Errors

(* An object is added once.                                                *)
AddObject(o) ==
  /\ Returned /\ Len(objects) < MaxObjects /\ \A i \in DOMAIN objects : objects[i] # o
  /\ objects' = Append(objects, o)
  /\ phase' = "idle"
  /\ UNCHANGED <<image_base, links, before, k, n, sections, offsets, table, slots, layout, rva,
                 file_off, result>>

(* relink: everything starts again from the objects.                       *)
Relink(base) ==
  /\ Returned /\ links < MaxLinks
  /\ image_base' = base /\ links' = links + 1
  /\ before' = IF phase = "linked" THEN result ELSE NoResult
  /\ phase' = "sections" /\ k' = 1 /\ n' = 1
  /\ sections' = <<>> /\ offsets' = <<>> /\ table' = <<>> /\ slots' = <<>>
  /\ layout' = <<>> /\ rva' = 0 /\ file_off' = 0 /\ result' = NoResult
  /\ UNCHANGED objects

(***************************************************************************)
(* _merge_sections.                                                        *)
(***************************************************************************)
Fresh(s) == [bss |-> s.bss, align |-> s.align, raw |-> 0, virt |-> 0, relocs |-> {}]

(* Mutant: rounds down.                                                    *)
StartDown(dst, s) == (dst.raw \div s.align) * s.align

Start(dst, s) == AlignUp(dst.raw, s.align)

Merged(dst, s, start) ==
  [bss |-> dst.bss \/ s.bss,
   align |-> Larger(dst.align, s.align),
   raw |-> start + s.raw,
   virt |-> IF s.virt > s.raw THEN start + s.virt ELSE dst.virt,
   relocs |-> dst.relocs \union
     {[off |-> r.off + start, kind |-> r.kind, sym |-> r.sym, add |-> r.add, adj |-> r.adj,
       from |-> <<k, s.name, r.off>>] : r \in s.relocs}]

MergeSection ==
  /\ phase = "sections" /\ k \in DOMAIN objects /\ n \in DOMAIN objects[k].sections
  /\ LET s == objects[k].sections[n]
         dst == IF s.name \in DOMAIN sections THEN sections[s.name] ELSE Fresh(s)
         start == Start(dst, s)
     IN  /\ sections' = Put(sections, s.name, Merged(dst, s, start))
         /\ offsets' = Put(offsets, <<k, s.name>>, start)
  /\ n' = n + 1
  /\ UNCHANGED <<inputs, phase, k, table, slots, layout, rva, file_off, result>>

NoSection == ""
AbsoluteEntry(a) == [kind |-> "absolute", sec |-> NoSection, val |-> Absolutes[a], more |-> 0]

NextSections ==
  /\ phase = "sections"
  /\ \/ /\ k \in DOMAIN objects /\ n \notin DOMAIN objects[k].sections
        /\ k' = k + 1 /\ n' = 1 /\ UNCHANGED <<phase, table>>
     \/ /\ k \notin DOMAIN objects
        /\ phase' = "symbols" /\ k' = 1 /\ n' = 1
        /\ table' = [a \in DOMAIN Absolutes |->
                       AbsoluteEntry(a)]
  /\ UNCHANGED <<inputs, sections, offsets, slots, layout, rva, file_off, result>>

(***************************************************************************)
(* _merge_symbols, and SymbolTable.define and declare.                     *)
(***************************************************************************)
(* Mutant: the start of the contribution is left out.                      *)
MovedStay(y) == [kind |-> y.kind, sec |-> y.sec, val |-> y.val, more |-> y.more]

Moved(y) ==
  [kind |-> y.kind, sec |-> y.sec,
   val |-> IF y.kind \in {"local", "global"} THEN y.val + offsets[<<k, y.sec>>] ELSE y.val,
   more |-> y.more]

(* Mutant: only a global is compared.                                      *)
ClashGlobals(y) ==
  /\ y.kind = "global" /\ y.name \in DOMAIN table
  /\ table[y.name].kind = "global" /\ table[y.name] # Moved(y)

(* A global must be the symbol that the table has under its name, if that  *)
(* is defined; a local, an import or an absolute takes its place.          *)
Clash(y) ==
  /\ y.kind = "global" /\ y.name \in DOMAIN table
  /\ table[y.name].kind # "undefined" /\ table[y.name] # Moved(y)

Enters(y) == y.kind = "undefined" => y.name \notin DOMAIN table

MergeSymbol ==
  /\ phase = "symbols" /\ k \in DOMAIN objects /\ n \in DOMAIN objects[k].symbols
  /\ LET y == objects[k].symbols[n]
     IN  \/ Clash(y) /\ phase' = "duplicate" /\ UNCHANGED <<n, table>>
         \/ /\ ~Clash(y) /\ n' = n + 1 /\ UNCHANGED phase
            /\ table' = IF Enters(y) THEN Put(table, y.name, Moved(y)) ELSE table
  /\ UNCHANGED <<inputs, k, sections, offsets, slots, layout, rva, file_off, result>>

NextSymbols ==
  /\ phase = "symbols"
  /\ \/ k \in DOMAIN objects /\ n \notin DOMAIN objects[k].symbols /\ k' = k + 1 /\ n' = 1 /\ UNCHANGED phase
     \/ k \notin DOMAIN objects /\ phase' = "iat" /\ UNCHANGED <<k, n>>
  /\ UNCHANGED <<inputs, sections, offsets, table, slots, layout, rva, file_off, result>>

(***************************************************************************)
(* _reserve_iat: slots of eight bytes behind what .idata holds.            *)
(***************************************************************************)
Imports == {i \in DOMAIN ImportOrder :
              ImportOrder[i] \in DOMAIN table /\ table[ImportOrder[i]].kind = "import"}
SlotIndex(i) == Cardinality({j \in Imports : j < i})

SlotSize == 8

Idata == IF ".idata" \in DOMAIN sections THEN sections[".idata"]
         ELSE [bss |-> FALSE, align |-> 8, raw |-> 0, virt |-> 0, relocs |-> {}]

ReserveIat ==
  /\ phase = "iat"
  /\ IF Imports = {} THEN UNCHANGED <<sections, slots>>
     ELSE LET start == AlignUp(Idata.raw, 8) IN
       /\ slots' = [y \in {ImportOrder[i] : i \in Imports} |->
                      start + SlotSize *
                        SlotIndex(CHOOSE i \in Imports : ImportOrder[i] = y)]
       /\ sections' = Put(sections, ".idata",
                          [Idata EXCEPT !.raw = start + SlotSize * Cardinality(Imports)])
  /\ phase' = "layout"
  /\ rva' = AlignUp(HeadersSize, SectionAlign) /\ file_off' = AlignUp(HeadersSize, FileAlign)
  /\ UNCHANGED <<inputs, k, n, offsets, table, layout, result>>

(***************************************************************************)
(* plan_layout.                                                            *)
(***************************************************************************)
Unplaced == {i \in DOMAIN SectionOrder :
               /\ SectionOrder[i] \in DOMAIN sections
               /\ \A p \in DOMAIN layout : layout[p].name # SectionOrder[i]}

Room(s) == Larger(AlignUp(VirtualSize(s), SectionAlign), SectionAlign)

PlaceSection ==
  /\ phase = "layout"
  /\ \E i \in Unplaced :
       LET name == SectionOrder[i]
           s == sections[name]
           at == AlignUp(rva, Larger(SectionAlign, s.align))
       IN  /\ \A j \in Unplaced : i <= j
           /\ layout' = Append(layout, [name |-> name, rva |-> at,
                                        file |-> IF s.bss THEN 0 ELSE file_off])
           /\ rva' = at + Room(s)
           /\ file_off' = IF s.bss THEN file_off ELSE file_off + AlignUp(s.raw, FileAlign)
  /\ UNCHANGED <<inputs, phase, k, n, sections, offsets, table, slots, result>>

(***************************************************************************)
(* _bind_addresses and _missing_symbols.                                   *)
(***************************************************************************)
Placed(name) == CHOOSE p \in DOMAIN layout : layout[p].name = name
SectionVA(name) == image_base + layout[Placed(name)].rva

Address(name) ==
  LET y == table[name]
  IN  CASE y.kind = "absolute" -> y.val
        [] y.kind = "import" -> SectionVA(".idata") + slots[name]
        [] OTHER -> SectionVA(y.sec) + y.val

addresses == [name \in {a \in DOMAIN table : table[a].kind # "undefined"} |-> Address(name)]
References == UNION {sections[s].relocs : s \in DOMAIN sections}
Missing == {r \in References : r.sym \notin DOMAIN addresses}

Bind ==
  /\ phase = "layout" /\ Unplaced = {}
  /\ phase' = IF Missing = {} THEN "apply" ELSE "undefined"
  /\ UNCHANGED <<inputs, k, n, sections, offsets, table, slots, layout, rva, file_off, result>>

(***************************************************************************)
(* relocated: compute_value, encode_value and the base relocations.        *)
(***************************************************************************)
Width(kind) == CASE kind = "ABS64" -> 8 [] kind = "REL8" -> 1 [] kind = "SECTION16" -> 2
                 [] OTHER -> 4

Value(name, r) ==
  LET value == addresses[r.sym] + r.add
  IN  CASE r.kind = "RVA32" -> value - image_base
        [] r.kind = "SECREL32" -> value - SectionVA(name)
        [] r.kind = "SECTION16" -> Placed(name)
        [] r.kind \in {"REL32", "REL8"} ->
             value - (SectionVA(name) + r.off + Width(r.kind) + r.adj)
        [] OTHER -> value

Fits(kind, v) ==
  CASE kind = "ABS64" -> v \in 0 .. Max64
    [] kind = "SECTION16" -> v \in 0 .. Max16
    [] kind = "REL32" -> 2 * v \in -(Max32 + 1) .. Max32
    [] kind = "REL8" -> v \in -128 .. 127
    [] OTHER -> v \in 0 .. Max32

NeedsBaseReloc64(kind) == kind = "ABS64"   \* Mutant: ABS32 forgotten.
NeedsBaseReloc(kind) == kind \in {"ABS64", "ABS32"}

(* Of every section: its fields, and what relocated writes into them.      *)
Fields == UNION {{<<s, r>> : r \in sections[s].relocs} : s \in DOMAIN sections}
Relocated ==
  [site \in {<<f[1], f[2].off>> : f \in Fields} |->
     LET f == CHOOSE f \in Fields : f[1] = site[1] /\ f[2].off = site[2]
     IN  Value(f[1], f[2])]

Apply ==
  /\ phase = "apply"
  /\ IF \A f \in Fields : Fits(f[2].kind, Value(f[1], f[2]))
       THEN /\ phase' = "linked"
            /\ result' =
                 [objects |-> objects, base |-> image_base, addresses |-> addresses,
                  contents |-> Relocated,
                  base_relocs |-> {<<f[1], f[2].off>> :
                                     f \in {f \in Fields : NeedsBaseReloc(f[2].kind)}}]
       ELSE phase' = "range" /\ UNCHANGED result
  /\ UNCHANGED <<inputs, k, n, sections, offsets, table, slots, layout, rva, file_off>>

Link == \/ MergeSection \/ NextSections \/ MergeSymbol \/ NextSymbols
        \/ ReserveIat \/ PlaceSection \/ Bind \/ Apply

Next == Link \/ (\E o \in Pool : AddObject(o)) \/ (\E b \in Bases : Relink(b))
Spec == Init /\ [][Next]_vars

(***************************************************************************)
(* Properties.                                                             *)
(***************************************************************************)
Phases == {"idle", "sections", "symbols", "iat", "layout", "apply", "linked"} \union Errors

Contribution(c) ==   \* the section of an object, by its key in offsets
  LET i == CHOOSE i \in DOMAIN objects[c[1]].sections : objects[c[1]].sections[i].name = c[2]
  IN  objects[c[1]].sections[i]

TypeOK ==
  /\ objects \in Seq(Pool) /\ Len(objects) <= MaxObjects
  /\ image_base \in Bases /\ links \in 0 .. MaxLinks
  /\ phase \in Phases /\ k \in Nat /\ n \in Nat /\ rva \in Nat /\ file_off \in Nat
  /\ \A s \in DOMAIN sections : sections[s].raw \in Nat /\ sections[s].virt \in Nat
  /\ \A c \in DOMAIN offsets :
       /\ c[1] \in DOMAIN objects /\ c[2] \in DOMAIN sections /\ offsets[c] \in Nat
       /\ offsets[c] + Contribution(c).raw <= sections[c[2]].raw
  /\ \A p \in DOMAIN layout : layout[p].name \in DOMAIN sections

Apart(a, alen, b, blen) == a + alen <= b \/ b + blen <= a

(* The bytes that objects put into one section do not overlap, they are in *)
(* the order of the objects, and each part is aligned as it asked for.     *)
BytesApart ==
  \A c, d \in DOMAIN offsets :
    /\ offsets[c] % Contribution(c).align = 0
    /\ c[2] = d[2] /\ c[1] < d[1] => offsets[c] + Contribution(c).raw <= offsets[d]

(* The same with zero-filled tails.  Not so: the next part begins where    *)
(* the bytes end, in the tail of the one before (linker.py 204-208).       *)
ContributionsApart ==
  \A c, d \in DOMAIN offsets :
    c[2] = d[2] /\ c # d =>
      Apart(offsets[c], VirtualSize(Contribution(c)), offsets[d], VirtualSize(Contribution(d)))

(* Placed sections do not overlap in memory, nor in the file.              *)
SectionsApart ==
  \A p, q \in DOMAIN layout : p # q =>
    LET s == sections[layout[p].name]
        t == sections[layout[q].name]
    IN  /\ Apart(layout[p].rva, VirtualSize(s), layout[q].rva, VirtualSize(t))
        /\ ~s.bss /\ ~t.bss => Apart(layout[p].file, s.raw, layout[q].file, t.raw)

(* The slot of an import belongs to it alone: no other slot and no         *)
(* contribution of an object shares a byte of it.                          *)
SlotsApart ==
  \A y \in DOMAIN slots :
    /\ slots[y] + 8 <= sections[".idata"].raw
    /\ \A z \in DOMAIN slots \ {y} : Apart(slots[y], 8, slots[z], 8)
    /\ \A c \in DOMAIN offsets : c[2] = ".idata" =>
         Apart(slots[y], 8, offsets[c], VirtualSize(Contribution(c)))

(* What name means in object i: its own local, else what some object or    *)
(* the driver defines for all.                                             *)
SymbolsOf(j) == {objects[j].symbols[i] : i \in DOMAIN objects[j].symbols}
Own(i, name) == {y \in SymbolsOf(i) : y.name = name /\ y.kind = "local"}
Definitions(i, name) ==
  IF Own(i, name) # {} THEN {<<i, y>> : y \in Own(i, name)}
  ELSE UNION {{<<j, y>> : y \in {y \in SymbolsOf(j) :
                 y.name = name /\ y.kind \in {"global", "import", "absolute"}}} : j \in DOMAIN objects}

Meaning(d) ==
  LET y == d[2]
  IN  CASE y.kind = "absolute" -> y.val
        [] y.kind = "import" -> SectionVA(".idata") + slots[y.name]
        [] OTHER -> SectionVA(y.sec) + offsets[<<d[1], y.sec>>] + y.val

Meanings(i, name) ==
  {Meaning(d) : d \in Definitions(i, name)}
  \union {Absolutes[a] : a \in DOMAIN Absolutes \intersect {name}}

Field(s, r) == result.contents[<<s, offsets[<<r.from[1], s>>] + r.from[3]>>]
Reads(s, r) ==   \* what the program finds at the field
  CASE r.kind = "RVA32" -> Field(s, r) + image_base
    [] r.kind \in {"REL32", "REL8"} -> Field(s, r) + SectionVA(s) + r.off + Width(r.kind) + r.adj
    [] OTHER -> Field(s, r)

(* The places that some object or the driver calls by a name.              *)
Places(name) ==
  {Meaning(d) : d \in UNION {{<<j, y>> : y \in {y \in SymbolsOf(j) :
                   y.name = name /\ y.kind # "undefined"}} : j \in DOMAIN objects}}
  \union {Absolutes[a] : a \in DOMAIN Absolutes \intersect {name}}

AddressKinds == Kinds \ {"SECREL32", "SECTION16"}

(* After any number of links, what the program reads at a field that holds *)
(* an address is where the name of its symbol is defined: the place itself *)
(* where one object defines the name, one of the places where several do   *)
(* (which one, says ReferencesHold; of the other kinds, SectionRelative).  *)
AddressesHold ==
  phase = "linked" =>
    \A s \in DOMAIN sections : \A r \in sections[s].relocs :
      r.kind \in AddressKinds => Reads(s, r) - r.add \in Places(r.sym)

(* It is what the name means in the object of the reference.  Not so: a    *)
(* local of one object takes the name from the others (symbols.py:26).     *)
ReferencesHold ==
  phase = "linked" =>
    \A s \in DOMAIN sections : \A r \in sections[s].relocs :
      r.kind \in AddressKinds => Reads(s, r) - r.add \in Meanings(r.from[1], r.sym)

(* A section-relative field is relative to the section of its target.  Not *)
(* so: it is relative to its own (relocs.py:51 and 127).                   *)
SectionRelative ==
  phase = "linked" =>
    \A s \in DOMAIN sections : \A r \in sections[s].relocs :
      \E d \in Definitions(r.from[1], r.sym) :
        /\ r.kind = "SECREL32" => Field(s, r) - r.add = Meaning(d) - SectionVA(d[2].sec)
        /\ r.kind = "SECTION16" => Field(s, r) = Placed(d[2].sec)

(* An image that the loader moves is the image that is linked there.       *)
RebaseIsRelink ==
  phase = "linked" /\ before.objects = objects /\ objects # <<>> =>
    \A site \in DOMAIN result.contents :
      result.contents[site] =
        before.contents[site] +
          (IF site \in before.base_relocs THEN image_base - before.base ELSE 0)

Defined == phase \in {"iat", "layout", "apply", "linked", "undefined", "range"}
Equal(i, y, j, z) ==   \* two globals of one name that are one symbol
  y.sec = z.sec /\ y.more = z.more /\ y.val + offsets[<<i, y.sec>>] = z.val + offsets[<<j, z.sec>>]
Globals(i) == {y \in SymbolsOf(i) : y.kind = "global"}

(* No link goes on with two different globals of one name, whatever locals *)
(* and imports of that name come before, between and after them.           *)
GlobalsUnique ==
  Defined =>
    \A i, j \in DOMAIN objects : \A y \in Globals(i), z \in Globals(j) :
      i # j /\ y.name = z.name => Equal(i, y, j, z)

(* A link fails for a duplicate only if two objects define a name for all. *)
(* Not so: a global is refused if the local of an object before it has the *)
(* name (symbols.py:26 and 120).                                           *)
DuplicateIsGlobal ==
  phase = "duplicate" =>
    \E i, j \in DOMAIN objects : i # j /\
      \E y \in Globals(i), z \in Globals(j) : y.name = z.name
=============================================================================
