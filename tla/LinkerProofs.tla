---------------------------- MODULE LinkerProofs ----------------------------
(***************************************************************************)
(* Theorems about Linker and PEWriter for any object files, alignments,    *)
(* symbols and image bases.                                                *)
(***************************************************************************)
EXTENDS PEWriter, FiniteSetTheorems, WellFoundedInduction, TLAPS

(***************************************************************************)
(* Rounding up.                                                            *)
(***************************************************************************)
LEMMA Divided ==
  ASSUME NEW v \in Int, NEW b \in Nat \ {0}
  PROVE  v = b * (v \div b) + (v % b) /\ (v % b) \in 0 .. b - 1 /\ (v \div b) \in Int
  OBVIOUS

LEMMA Multiple ==
  ASSUME NEW q \in Int, NEW b \in Nat \ {0}
  PROVE  (b * q) % b = 0
  OBVIOUS

LEMMA RoundsUp ==
  ASSUME NEW v \in Nat, NEW b \in Nat \ {0}
  PROVE  AlignUp(v, b) \in Nat /\ v <= AlignUp(v, b) /\ AlignUp(v, b) % b = 0
<1> DEFINE q == (-v) \div b
<1>1. /\ -v \in Int /\ -v = b * q + ((-v) % b) /\ q \in Int
      /\ ((-v) % b) \in Nat
  BY Divided
<1>2. AlignUp(v, b) \in Nat /\ v <= AlignUp(v, b)
  BY <1>1 DEF AlignUp
<1>3. AlignUp(v, b) % b = 0
  <2>1. AlignUp(v, b) = b * (-q)
    BY <1>1 DEF AlignUp
  <2>2. -q \in Int
    BY <1>1
  <2>3. PICK r \in Int : r = -q
    BY <2>2
  <2>4. AlignUp(v, b) = b * r
    BY <2>1, <2>3
  <2>5. QED
    BY <2>4, Multiple
<1>4. QED
  BY <1>2, <1>3

LEMMA Larger2 ==
  ASSUME NEW a \in Nat, NEW b \in Nat
  PROVE  Larger(a, b) \in {a, b} /\ a <= Larger(a, b) /\ b <= Larger(a, b)
  BY DEF Larger

LEMMA Element ==
  ASSUME NEW S, NEW s \in Seq(S), NEW i \in DOMAIN s
  PROVE  s[i] \in S
  OBVIOUS

LEMMA ElementOf == \A S : \A s \in Seq(S) : \A i \in DOMAIN s : s[i] \in S
  BY Element, Zenon

(***************************************************************************)
(* The objects.                                                            *)
(***************************************************************************)
LEMMA Parts ==
  ASSUME NEW o \in Pool, NEW m \in DOMAIN o.sections
  PROVE  /\ o.sections[m].align \in Nat \ {0}
         /\ o.sections[m].raw \in Nat /\ o.sections[m].virt \in Nat
         /\ \A l \in DOMAIN o.sections : o.sections[l].name = o.sections[m].name => l = m
<1>1. IsObject(o)
  BY LinkerAssumption
<1>2. o.sections[m] \in ObjectSections
  BY <1>1, ElementOf DEF IsObject
<1>3. QED
  BY <1>1, <1>2 DEF IsObject, ObjectSections

LEMMA TheContribution ==
  ASSUME objects \in Seq(Pool), NEW i \in DOMAIN objects, NEW m \in DOMAIN objects[i].sections
  PROVE  Contribution(<<i, objects[i].sections[m].name>>) = objects[i].sections[m]
<1>1. objects[i] \in Pool
  OBVIOUS
<1>2. \A l \in DOMAIN objects[i].sections :
        objects[i].sections[l].name = objects[i].sections[m].name => l = m
  BY <1>1, Parts
<1>3. QED
  BY <1>2 DEF Contribution

(* Where the parts are: each in its own stretch of the bytes of a section. *)
IsPart(c) ==
  /\ c = <<c[1], c[2]>> /\ c[1] \in DOMAIN objects
  /\ \E m \in DOMAIN objects[c[1]].sections : objects[c[1]].sections[m].name = c[2]

PartsOK ==
  \A c \in DOMAIN offsets :
    /\ IsPart(c) /\ c[2] \in DOMAIN sections /\ offsets[c] \in Nat
    /\ offsets[c] % Contribution(c).align = 0
    /\ offsets[c] + Contribution(c).raw <= sections[c[2]].raw
    /\ \A d \in DOMAIN offsets : c[2] = d[2] /\ c # d =>
         Apart(offsets[c], Contribution(c).raw, offsets[d], Contribution(d).raw)

SectionsOK ==
  \A s \in DOMAIN sections :
    /\ DOMAIN sections[s] = {"bss", "align", "raw", "virt", "relocs"}
    /\ sections[s].raw \in Nat /\ sections[s].virt \in Nat /\ sections[s].align \in Nat \ {0}

LEMMA PartType ==
  ASSUME objects \in Seq(Pool), NEW c, IsPart(c)
  PROVE  Contribution(c).align \in Nat \ {0} /\ Contribution(c).raw \in Nat
         /\ Contribution(c).virt \in Nat
<1>1. PICK m \in DOMAIN objects[c[1]].sections : objects[c[1]].sections[m].name = c[2]
  BY DEF IsPart
<1>2. Contribution(c) = objects[c[1]].sections[m]
  BY <1>1, TheContribution DEF IsPart
<1>3. objects[c[1]] \in Pool
  BY DEF IsPart
<1>4. QED
  BY <1>2, <1>3, Parts

(* What has been linked stays where it is when an object is added.         *)
LEMMA PartKept ==
  ASSUME objects \in Seq(Pool), NEW o \in Pool, objects' = Append(objects, o),
         NEW c, IsPart(c)
  PROVE  IsPart(c)' /\ Contribution(c)' = Contribution(c)
<1>1. c[1] \in DOMAIN objects' /\ objects'[c[1]] = objects[c[1]]
  BY DEF IsPart
<1>2. QED
  BY <1>1 DEF IsPart, Contribution

(* Parts that stay where they are stay apart.                              *)
LEMMA PartsKept ==
  ASSUME PartsOK, UNCHANGED <<objects, sections, offsets>>
  PROVE  PartsOK'
<1>1. \A c : IsPart(c)' = IsPart(c) /\ Contribution(c)' = Contribution(c)
  BY DEF IsPart, Contribution
<1>2. QED
  BY <1>1 DEF PartsOK, Apart

(***************************************************************************)
(* The layout.                                                             *)
(***************************************************************************)
Merging == phase \in {"sections", "symbols", "iat"}

LayoutOK ==
  /\ rva \in Nat /\ file_off \in Nat
  /\ Merging => layout = <<>>
  /\ layout \in Seq([name : DOMAIN sections, rva : Nat, file : Nat])
  /\ \A p \in DOMAIN layout :
       LET s == sections[layout[p].name]
       IN  /\ layout[p].rva + VirtualSize(s) <= rva
           /\ ~s.bss => layout[p].file + s.raw <= file_off
  /\ \A p, q \in DOMAIN layout : p < q =>
       LET s == sections[layout[p].name]
           t == sections[layout[q].name]
       IN  /\ layout[p].rva + VirtualSize(s) <= layout[q].rva
           /\ ~s.bss /\ ~t.bss => layout[p].file + s.raw <= layout[q].file

InputsOK ==
  /\ objects \in Seq(Pool) /\ Len(objects) <= MaxObjects
  /\ image_base \in Bases /\ links \in 0 .. MaxLinks
  /\ phase \in Phases /\ k \in Nat /\ n \in Nat

IInv == InputsOK /\ SectionsOK /\ PartsOK /\ LayoutOK

LEMMA InitIInv == Init => IInv
<1> SUFFICES ASSUME Init PROVE IInv
  OBVIOUS
<1>1. DOMAIN sections = {} /\ DOMAIN offsets = {} /\ layout = <<>>
  BY DEF Init
<1>2. InputsOK
  BY LinkerAssumption DEF Init, InputsOK, Phases
<1>3. LayoutOK
  BY <1>1 DEF Init, LayoutOK
<1>4. QED
  BY <1>1, <1>2, <1>3 DEF IInv, SectionsOK, PartsOK

LEMMA InputsStep == InputsOK /\ [Next]_vars => InputsOK'
<1> SUFFICES ASSUME InputsOK, [Next]_vars PROVE InputsOK'
  OBVIOUS
<1> USE DEF InputsOK, Phases, Errors
<1>1. ASSUME NEW o \in Pool, AddObject(o) PROVE InputsOK'
  BY <1>1, LinkerAssumption DEF AddObject
<1>2. ASSUME NEW b \in Bases, Relink(b) PROVE InputsOK'
  BY <1>2, LinkerAssumption DEF Relink
<1>3. CASE Link
  <2>1. UNCHANGED <<objects, image_base, links>>
    BY <1>3 DEF Link, MergeSection, NextSections, MergeSymbol, NextSymbols, ReserveIat,
                PlaceSection, Bind, Apply, inputs
  <2>2. k' \in Nat /\ n' \in Nat
    <3>1. k' \in {1, k, k + 1}
      BY <1>3 DEF Link, MergeSection, NextSections, MergeSymbol, NextSymbols, ReserveIat,
                  PlaceSection, Bind, Apply
    <3>2. n' \in {1, n, n + 1}
      <4>1. MergeSymbol => n' \in {n, n + 1}
        BY DEF MergeSymbol
      <4>2. QED
        BY <1>3, <4>1 DEF Link, MergeSection, NextSections, NextSymbols, ReserveIat,
                          PlaceSection, Bind, Apply
    <3>3. QED
      BY <3>1, <3>2
  <2>3. phase' \in Phases
    BY <1>3 DEF Link, MergeSection, NextSections, MergeSymbol, NextSymbols, ReserveIat,
                PlaceSection, Bind, Apply
  <2>4. QED
    BY <2>1, <2>2, <2>3
<1>4. CASE UNCHANGED vars
  BY <1>4 DEF vars, inputs
<1>5. QED
  BY <1>1, <1>2, <1>3, <1>4 DEF Next

(* A part is put behind all parts its section has.                         *)
LEMMA MergeStep ==
  ASSUME IInv, MergeSection
  PROVE  SectionsOK' /\ PartsOK' /\ LayoutOK'
<1> DEFINE s == objects[k].sections[n]
           dst == IF s.name \in DOMAIN sections THEN sections[s.name] ELSE Fresh(s)
           start == Start(dst, s)
           key == <<k, s.name>>
<1>1. /\ phase = "sections" /\ k \in DOMAIN objects /\ n \in DOMAIN objects[k].sections
      /\ sections' = Put(sections, s.name, Merged(dst, s, start))
      /\ offsets' = Put(offsets, key, start)
      /\ UNCHANGED <<objects, phase, layout, rva, file_off>>
  BY DEF MergeSection, inputs
<1>2. objects \in Seq(Pool) /\ objects[k] \in Pool
  BY <1>1 DEF IInv, InputsOK
<1>3. s.align \in Nat \ {0} /\ s.raw \in Nat /\ s.virt \in Nat
  BY <1>1, <1>2, Parts
<1>4. Contribution(key) = s /\ IsPart(key)
  BY <1>1, <1>2, TheContribution DEF IsPart
<1>5. dst.raw \in Nat /\ dst.virt \in Nat /\ dst.align \in Nat \ {0}
      /\ (s.name \in DOMAIN sections => dst = sections[s.name])
  BY <1>3 DEF IInv, SectionsOK, Fresh
<1> HIDE DEF dst
<1>6. start \in Nat /\ dst.raw <= start /\ start % s.align = 0
  BY <1>3, <1>5, RoundsUp DEF Start
<1> HIDE DEF start
<1>7. /\ Merged(dst, s, start).raw = start + s.raw
      /\ Merged(dst, s, start).virt \in Nat
      /\ Merged(dst, s, start).align \in Nat \ {0}
      /\ DOMAIN Merged(dst, s, start) = {"bss", "align", "raw", "virt", "relocs"}
  BY <1>3, <1>5, <1>6 DEF Merged, Larger
<1> HIDE DEF s, key
<1>8. /\ DOMAIN sections' = DOMAIN sections \union {s.name}
      /\ sections'[s.name] = Merged(dst, s, start)
      /\ \A r \in DOMAIN sections \ {s.name} : sections'[r] = sections[r]
  BY <1>1 DEF Put
<1>9. /\ DOMAIN offsets' = DOMAIN offsets \union {key} /\ offsets'[key] = start
      /\ \A c \in DOMAIN offsets \ {key} : offsets'[c] = offsets[c]
  BY <1>1 DEF Put
<1>10. SectionsOK'
  BY <1>3, <1>6, <1>7, <1>8 DEF IInv, SectionsOK
<1>11. \A r \in DOMAIN sections : sections[r].raw <= sections'[r].raw
                                 /\ sections'[r].raw \in Nat /\ sections[r].raw \in Nat
  BY <1>3, <1>5, <1>6, <1>7, <1>8 DEF IInv, SectionsOK
<1>12. \A c : IsPart(c)' = IsPart(c) /\ Contribution(c)' = Contribution(c)
  BY <1>1 DEF IsPart, Contribution
<1>13. key[1] = k /\ key[2] = s.name
  BY DEF key
<1>14. ASSUME NEW c \in DOMAIN offsets \ {key}
       PROVE  /\ IsPart(c) /\ c[2] \in DOMAIN sections /\ offsets[c] \in Nat
              /\ offsets[c] % Contribution(c).align = 0
              /\ offsets[c] + Contribution(c).raw <= sections[c[2]].raw
              /\ Contribution(c).raw \in Nat
              /\ c[2] = s.name => offsets[c] + Contribution(c).raw <= start
  <2>1. /\ IsPart(c) /\ c[2] \in DOMAIN sections /\ offsets[c] \in Nat
        /\ offsets[c] % Contribution(c).align = 0
        /\ offsets[c] + Contribution(c).raw <= sections[c[2]].raw
    BY DEF IInv, PartsOK
  <2>2. Contribution(c).raw \in Nat
    BY <1>2, <2>1, PartType
  <2>3. c[2] = s.name => sections[c[2]].raw = dst.raw
    BY <1>5, <2>1
  <2>4. QED
    BY <1>5, <1>6, <2>1, <2>2, <2>3
<1>15. PartsOK'
  <2> SUFFICES ASSUME NEW c \in DOMAIN offsets'
               PROVE  /\ IsPart(c) /\ c[2] \in DOMAIN sections' /\ offsets'[c] \in Nat
                      /\ offsets'[c] % Contribution(c).align = 0
                      /\ offsets'[c] + Contribution(c).raw <= sections'[c[2]].raw
                      /\ \A d \in DOMAIN offsets' : c[2] = d[2] /\ c # d =>
                           Apart(offsets'[c], Contribution(c).raw,
                                 offsets'[d], Contribution(d).raw)
    BY <1>12 DEF PartsOK, Apart
  <2>1. CASE c = key
    BY <1>3, <1>4, <1>6, <1>7, <1>8, <1>9, <1>13, <1>14, <2>1 DEF Apart
  <2>2. CASE c \in DOMAIN offsets \ {key}
    <3>1. \A d \in DOMAIN offsets \ {key} : c[2] = d[2] /\ c # d =>
            Apart(offsets[c], Contribution(c).raw, offsets[d], Contribution(d).raw)
      BY <2>2 DEF IInv, PartsOK
    <3>2. c[2] = key[2] => Apart(offsets[c], Contribution(c).raw, start, s.raw)
      BY <1>6, <1>3, <1>13, <1>14, <2>2 DEF Apart
    <3>3. offsets'[c] + Contribution(c).raw <= sections'[c[2]].raw
      BY <1>9, <1>11, <1>14, <2>2
    <3>4. QED
      BY <1>4, <1>8, <1>9, <1>14, <2>2, <3>1, <3>2, <3>3
  <2>3. QED
    BY <1>9, <2>1, <2>2
<1>16. LayoutOK'
  BY <1>1 DEF IInv, LayoutOK, Merging
<1>17. QED
  BY <1>10, <1>15, <1>16

LEMMA AddStep ==
  ASSUME IInv, NEW o \in Pool, AddObject(o)
  PROVE  SectionsOK' /\ PartsOK' /\ LayoutOK'
<1>1. /\ objects \in Seq(Pool) /\ objects' = Append(objects, o) /\ phase' = "idle"
      /\ UNCHANGED <<sections, offsets, layout, rva, file_off>>
  BY DEF AddObject, IInv, InputsOK
<1>2. \A c \in DOMAIN offsets : IsPart(c)' /\ Contribution(c)' = Contribution(c)
  BY <1>1, PartKept DEF IInv, PartsOK
<1>3. PartsOK'
  BY <1>1, <1>2 DEF IInv, PartsOK, Apart
<1>4. QED
  BY <1>1, <1>3 DEF IInv, SectionsOK, LayoutOK, Merging, VirtualSize, Larger

LEMMA RelinkStep ==
  ASSUME IInv, NEW b \in Bases, Relink(b)
  PROVE  SectionsOK' /\ PartsOK' /\ LayoutOK'
<1>1. DOMAIN sections' = {} /\ DOMAIN offsets' = {} /\ layout' = <<>> /\ rva' = 0 /\ file_off' = 0
  BY DEF Relink
<1>2. QED
  BY <1>1 DEF SectionsOK, PartsOK, LayoutOK

(* The slots are put behind everything in .idata.                          *)
LEMMA ReserveStep ==
  ASSUME IInv, ReserveIat
  PROVE  SectionsOK' /\ PartsOK' /\ LayoutOK'
<1>1. /\ layout = <<>> /\ phase' = "layout" /\ UNCHANGED <<objects, offsets, layout>>
  BY DEF ReserveIat, inputs, IInv, LayoutOK, Merging
<1>2. rva' \in Nat /\ file_off' \in Nat
  BY LinkerAssumption, RoundsUp DEF ReserveIat
<1>3. Cardinality(Imports) \in Nat
  <2>1. IsFiniteSet(Imports)
    BY LinkerAssumption, FS_Subset DEF Imports
  <2>2. QED
    BY <2>1, FS_CardinalityType
<1>4. /\ Idata.raw \in Nat /\ Idata.virt \in Nat /\ Idata.align \in Nat \ {0}
      /\ (".idata" \in DOMAIN sections => Idata = sections[".idata"])
  BY DEF Idata, IInv, SectionsOK
<1> DEFINE end == AlignUp(Idata.raw, 8) + SlotSize * Cardinality(Imports)
           new == [Idata EXCEPT !.raw = end]
<1>5. end \in Nat /\ Idata.raw <= end
  BY <1>3, <1>4, RoundsUp DEF SlotSize
<1> HIDE DEF end
<1>6. \/ UNCHANGED sections
      \/ sections' = Put(sections, ".idata", new)
  BY DEF ReserveIat, end
<1>7. /\ new.raw \in {end, Idata.raw} /\ new.virt = Idata.virt /\ new.align = Idata.align
      /\ DOMAIN new = {"bss", "align", "raw", "virt", "relocs"}
  <2>1. CASE ".idata" \in DOMAIN sections
    BY <2>1 DEF Idata, IInv, SectionsOK
  <2>2. CASE ".idata" \notin DOMAIN sections
    BY <2>2 DEF Idata
  <2>3. QED
    BY <2>1, <2>2
<1> HIDE DEF new
<1>8. /\ SectionsOK' /\ DOMAIN sections \subseteq DOMAIN sections'
      /\ \A r \in DOMAIN sections : sections[r].raw <= sections'[r].raw
  <2>1. CASE UNCHANGED sections
    BY <2>1 DEF IInv, SectionsOK
  <2>2. CASE sections' = Put(sections, ".idata", new)
    BY <1>4, <1>5, <1>7, <2>2 DEF IInv, SectionsOK, Put
  <2>3. QED
    BY <1>6, <2>1, <2>2
<1>9. \A c : IsPart(c)' = IsPart(c) /\ Contribution(c)' = Contribution(c)
  BY <1>1 DEF IsPart, Contribution
<1>10. ASSUME NEW c \in DOMAIN offsets
       PROVE  /\ c[2] \in DOMAIN sections'
              /\ offsets[c] + Contribution(c).raw <= sections'[c[2]].raw
  <2>1. /\ IsPart(c) /\ c[2] \in DOMAIN sections /\ offsets[c] \in Nat
        /\ offsets[c] + Contribution(c).raw <= sections[c[2]].raw
    BY DEF IInv, PartsOK
  <2>2. Contribution(c).raw \in Nat
    BY <2>1, PartType DEF IInv, InputsOK
  <2>3. sections[c[2]].raw \in Nat /\ sections'[c[2]].raw \in Nat
        /\ sections[c[2]].raw <= sections'[c[2]].raw /\ c[2] \in DOMAIN sections'
    BY <1>8, <2>1 DEF IInv, SectionsOK
  <2>4. QED
    BY <2>1, <2>2, <2>3
<1>11. PartsOK'
  BY <1>1, <1>9, <1>10 DEF IInv, PartsOK, Apart
<1>12. LayoutOK'
  BY <1>1, <1>2 DEF LayoutOK, Merging
<1>13. QED
  BY <1>8, <1>11, <1>12

LEMMA PlaceStep ==
  ASSUME IInv, PlaceSection
  PROVE  SectionsOK' /\ PartsOK' /\ LayoutOK'
<1>1. PICK i \in Unplaced :
        LET name == SectionOrder[i]
            s == sections[name]
            at == AlignUp(rva, Larger(SectionAlign, s.align))
        IN  /\ \A j \in Unplaced : i <= j
            /\ layout' = Append(layout, [name |-> name, rva |-> at,
                                         file |-> IF s.bss THEN 0 ELSE file_off])
            /\ rva' = at + Room(s)
            /\ file_off' = IF s.bss THEN file_off ELSE file_off + AlignUp(s.raw, FileAlign)
  BY DEF PlaceSection
<1> DEFINE name == SectionOrder[i]
           s == sections[name]
           at == AlignUp(rva, Larger(SectionAlign, s.align))
           new == [name |-> name, rva |-> at, file |-> IF s.bss THEN 0 ELSE file_off]
<1>2. /\ name \in DOMAIN sections /\ layout' = Append(layout, new) /\ rva' = at + Room(s)
      /\ file_off' = IF s.bss THEN file_off ELSE file_off + AlignUp(s.raw, FileAlign)
  BY <1>1 DEF Unplaced
<1>3. /\ phase = "layout" /\ UNCHANGED <<objects, phase, sections, offsets>>
      /\ rva \in Nat /\ file_off \in Nat
      /\ layout \in Seq([name : DOMAIN sections, rva : Nat, file : Nat])
  BY DEF PlaceSection, inputs, IInv, LayoutOK
<1>4. s.raw \in Nat /\ s.virt \in Nat /\ s.align \in Nat \ {0}
  BY <1>2 DEF IInv, SectionsOK
<1> HIDE DEF name, s
<1>5. at \in Nat /\ rva <= at
  BY <1>3, <1>4, LinkerAssumption, Larger2, RoundsUp
<1>6. /\ AlignUp(s.raw, FileAlign) \in Nat /\ s.raw <= AlignUp(s.raw, FileAlign)
      /\ VirtualSize(s) \in Nat /\ Room(s) \in Nat /\ VirtualSize(s) <= Room(s)
  <2>1. VirtualSize(s) \in Nat
    BY <1>4 DEF VirtualSize, Larger
  <2>2. AlignUp(VirtualSize(s), SectionAlign) \in Nat
        /\ VirtualSize(s) <= AlignUp(VirtualSize(s), SectionAlign)
    BY <2>1, LinkerAssumption, RoundsUp
  <2>3. Room(s) \in Nat /\ VirtualSize(s) <= Room(s)
    BY <2>1, <2>2, LinkerAssumption DEF Room, Larger
  <2>4. AlignUp(s.raw, FileAlign) \in Nat /\ s.raw <= AlignUp(s.raw, FileAlign)
    BY <1>4, LinkerAssumption, RoundsUp
  <2>5. QED
    BY <2>1, <2>3, <2>4
<1> HIDE DEF at
<1>7. /\ rva' \in Nat /\ file_off' \in Nat
      /\ rva <= rva' /\ file_off <= file_off'
      /\ new.rva + VirtualSize(s) <= rva'
      /\ ~s.bss => new.file = file_off /\ new.file + s.raw <= file_off'
      /\ new \in [name : DOMAIN sections, rva : Nat, file : Nat]
      /\ new.name = name /\ new.rva = at
  <2>1. /\ new.name = name /\ new.rva = at /\ new.file \in {0, file_off}
        /\ ~s.bss => new.file = file_off
    BY <1>3
  <2>2. new \in [name : DOMAIN sections, rva : Nat, file : Nat]
    BY <1>2, <1>3, <1>5
  <2>3. rva' = at + Room(s) /\ file_off' \in {file_off, file_off + AlignUp(s.raw, FileAlign)}
        /\ (~s.bss => file_off' = file_off + AlignUp(s.raw, FileAlign))
    BY <1>2
  <2> HIDE DEF new
  <2>4. rva' \in Nat /\ file_off' \in Nat /\ rva <= rva' /\ file_off <= file_off'
    BY <1>3, <1>5, <1>6, <2>3
  <2>5. new.rva + VirtualSize(s) <= rva'
    BY <1>5, <1>6, <2>1, <2>3
  <2>6. ~s.bss => new.file = file_off /\ new.file + s.raw <= file_off'
    BY <1>3, <1>4, <1>6, <2>1, <2>3
  <2>7. QED
    BY <2>1, <2>2, <2>4, <2>5, <2>6
<1> HIDE DEF new
<1>8. PICK m \in Nat : m = Len(layout)
  BY <1>3
<1>9. /\ layout' \in Seq([name : DOMAIN sections, rva : Nat, file : Nat])
      /\ DOMAIN layout = 1 .. m /\ DOMAIN layout' = 1 .. m + 1
      /\ \A p \in 1 .. m : layout'[p] = layout[p]
      /\ layout'[m + 1] = new
  BY <1>2, <1>3, <1>7, <1>8
<1>10. ASSUME NEW p \in 1 .. m
       PROVE  /\ layout[p].name \in DOMAIN sections /\ layout[p].rva \in Nat
              /\ layout[p].file \in Nat
              /\ sections[layout[p].name].raw \in Nat
              /\ VirtualSize(sections[layout[p].name]) \in Nat
              /\ layout[p].rva + VirtualSize(sections[layout[p].name]) <= rva
              /\ ~sections[layout[p].name].bss =>
                   layout[p].file + sections[layout[p].name].raw <= file_off
  <2>1. layout[p] \in [name : DOMAIN sections, rva : Nat, file : Nat]
    BY <1>3, <1>9, Element
  <2>2. sections[layout[p].name].raw \in Nat /\ sections[layout[p].name].virt \in Nat
    BY <2>1 DEF IInv, SectionsOK
  <2>3. VirtualSize(sections[layout[p].name]) \in Nat
    BY <2>2 DEF VirtualSize, Larger
  <2>4. QED
    BY <1>9, <2>1, <2>2, <2>3 DEF IInv, LayoutOK
<1>11. ASSUME NEW p \in DOMAIN layout'
       PROVE  /\ layout'[p].rva + VirtualSize(sections[layout'[p].name]) <= rva'
              /\ ~sections[layout'[p].name].bss =>
                   layout'[p].file + sections[layout'[p].name].raw <= file_off'
  <2>1. CASE p = m + 1
    BY <1>7, <1>9, <2>1 DEF s
  <2>2. CASE p \in 1 .. m
    <3>1. layout'[p] = layout[p] /\ sections' = sections
      BY <1>3, <1>9, <2>2
    <3>2. rva \in Nat /\ rva' \in Nat /\ rva <= rva' /\ file_off \in Nat /\ file_off' \in Nat
          /\ file_off <= file_off'
      BY <1>3, <1>7
    <3>3. layout[p].rva + VirtualSize(sections[layout[p].name]) <= rva'
      BY <1>10, <2>2, <3>2
    <3>4. ~sections[layout[p].name].bss =>
            layout[p].file + sections[layout[p].name].raw <= file_off'
      BY <1>10, <2>2, <3>2
    <3>5. QED
      BY <3>1, <3>3, <3>4
  <2>3. QED
    BY <1>9, <2>1, <2>2
<1>12. ASSUME NEW p \in DOMAIN layout', NEW q \in DOMAIN layout', p < q
       PROVE  LET a == sections[layout'[p].name]
                  b == sections[layout'[q].name]
              IN  /\ layout'[p].rva + VirtualSize(a) <= layout'[q].rva
                  /\ ~a.bss /\ ~b.bss => layout'[p].file + a.raw <= layout'[q].file
  <2>1. CASE q = m + 1
    <3>1. p \in 1 .. m
      BY <1>9, <1>12, <2>1
    <3>2. QED
      <4>1. /\ layout'[p] = layout[p] /\ layout'[q].rva = at
            /\ layout'[q].name = name /\ layout'[q].file = new.file
            /\ rva \in Nat /\ at \in Nat /\ rva <= at
        BY <1>3, <1>5, <1>7, <1>9, <2>1, <3>1
      <4>2. layout[p].rva + VirtualSize(sections[layout[p].name]) <= at
        BY <1>10, <3>1, <4>1
      <4>3. ~sections[layout[p].name].bss /\ ~s.bss =>
              layout[p].file + sections[layout[p].name].raw <= new.file
        BY <1>7, <1>10, <3>1
      <4>4. QED
        BY <4>1, <4>2, <4>3 DEF s
  <2>2. CASE q \in 1 .. m
    <3>1. p \in 1 .. m
      BY <1>9, <1>12, <2>2
    <3>2. QED
      BY <1>9, <1>12, <2>2, <3>1 DEF IInv, LayoutOK
  <2>3. QED
    BY <1>9, <2>1, <2>2
<1>13. LayoutOK'
  <2>1. ~Merging'
    BY <1>3 DEF Merging
  <2>2. sections' = sections
    BY <1>3
  <2>3. QED
    BY <1>7, <1>9, <1>11, <1>12, <2>1, <2>2 DEF LayoutOK, VirtualSize
<1>14. SectionsOK'
  BY <1>3 DEF IInv, SectionsOK
<1>15. PartsOK'
  BY <1>3, PartsKept DEF IInv
<1>16. QED
  BY <1>13, <1>14, <1>15

LEMMA NextIInv == IInv /\ [Next]_vars => IInv'
<1> SUFFICES ASSUME IInv, [Next]_vars PROVE SectionsOK' /\ PartsOK' /\ LayoutOK'
  BY InputsStep DEF IInv
<1>1. CASE NextSections \/ MergeSymbol \/ NextSymbols \/ Bind \/ Apply \/ UNCHANGED vars
  <2>1. /\ UNCHANGED <<objects, sections, offsets, layout, rva, file_off>>
        /\ Merging' => Merging
    BY <1>1 DEF NextSections, MergeSymbol, NextSymbols, Bind, Apply, vars, inputs, Merging
  <2>2. SectionsOK'
    BY <2>1 DEF IInv, SectionsOK
  <2>3. PartsOK'
    BY <2>1, PartsKept DEF IInv
  <2>4. LayoutOK'
    BY <2>1 DEF IInv, LayoutOK, VirtualSize
  <2>5. QED
    BY <2>2, <2>3, <2>4
<1>2. QED
  BY <1>1, AddStep, RelinkStep, MergeStep, ReserveStep, PlaceStep DEF Next, Link

LEMMA Invariance == Spec => []IInv
  BY InitIInv, NextIInv, PTL DEF Spec

(* Every state of every behaviour is of the declared types.                *)
THEOREM Typing == Spec => []TypeOK
<1>1. IInv => TypeOK
  <2> SUFFICES ASSUME IInv PROVE TypeOK
    OBVIOUS
  <2>1. layout \in Seq([name : DOMAIN sections, rva : Nat, file : Nat])
    BY DEF IInv, LayoutOK
  <2>2. ASSUME NEW p \in DOMAIN layout PROVE layout[p].name \in DOMAIN sections
    <3>1. layout[p] \in [name : DOMAIN sections, rva : Nat, file : Nat]
      BY <2>1, ElementOf
    <3>2. QED
      BY <3>1
  <2>3. ASSUME NEW c \in DOMAIN offsets
        PROVE  /\ c[1] \in DOMAIN objects /\ c[2] \in DOMAIN sections /\ offsets[c] \in Nat
               /\ offsets[c] + Contribution(c).raw <= sections[c[2]].raw
    BY DEF IInv, PartsOK, IsPart
  <2>4. InputsOK /\ rva \in Nat /\ file_off \in Nat
        /\ \A s \in DOMAIN sections : sections[s].raw \in Nat /\ sections[s].virt \in Nat
    BY DEF IInv, LayoutOK, SectionsOK
  <2>5. QED
    BY <2>2, <2>3, <2>4 DEF InputsOK, TypeOK
<1>2. QED
  BY <1>1, Invariance, PTL

(* plan_layout: no two sections share an address, nor bytes of the file,   *)
(* whatever their zero-filled tails and alignments are.                    *)
THEOREM Placement == Spec => []SectionsApart
<1>1. IInv => SectionsApart
  <2> SUFFICES ASSUME IInv, NEW p \in DOMAIN layout, NEW q \in DOMAIN layout, p # q
               PROVE  LET s == sections[layout[p].name]
                          t == sections[layout[q].name]
                      IN  /\ Apart(layout[p].rva, VirtualSize(s), layout[q].rva, VirtualSize(t))
                          /\ ~s.bss /\ ~t.bss =>
                               Apart(layout[p].file, s.raw, layout[q].file, t.raw)
    BY DEF SectionsApart
  <2>1. p < q \/ q < p
    BY DEF IInv, LayoutOK
  <2>2. QED
    BY <2>1 DEF IInv, LayoutOK, Apart
<1>2. QED
  BY <1>1, Invariance, PTL

LEMMA PartOf ==
  ASSUME IInv, NEW c \in DOMAIN offsets
  PROVE  \E m \in DOMAIN objects[c[1]].sections :
           /\ objects[c[1]].sections[m].name = c[2] /\ Contribution(c) = objects[c[1]].sections[m]
           /\ objects[c[1]] \in Pool
<1>1. IsPart(c) /\ objects \in Seq(Pool)
  BY DEF IInv, PartsOK, InputsOK
<1>2. PICK m \in DOMAIN objects[c[1]].sections : objects[c[1]].sections[m].name = c[2]
  BY <1>1 DEF IsPart
<1>3. PICK i \in DOMAIN objects : i = c[1] /\ objects[i] \in Pool
  BY <1>1 DEF IsPart
<1>4. c = <<i, objects[i].sections[m].name>>
  BY <1>1, <1>2, <1>3 DEF IsPart
<1>5. m \in DOMAIN objects[i].sections
  BY <1>3
<1>6. Contribution(c) = objects[i].sections[m]
  BY <1>1, <1>4, <1>5, TheContribution
<1>7. QED
  BY <1>2, <1>3, <1>6

(***************************************************************************)
(* The import slots.  SlotsOK strengthens SlotsApart with where they begin *)
(* and with when there are none.                                           *)
(***************************************************************************)
SlotsOK ==
  /\ Merging => DOMAIN slots = {}
  /\ \A y \in DOMAIN slots :
       /\ slots[y] \in Nat /\ slots[y] + 8 <= sections[".idata"].raw
       /\ \A z \in DOMAIN slots : z # y => Apart(slots[y], 8, slots[z], 8)
       /\ \A c \in DOMAIN offsets : c[2] = ".idata" =>
            offsets[c] + Contribution(c).raw <= slots[y]

LEMMA ImportsFinite ==
  IsFiniteSet(Imports) /\ Imports \subseteq Nat /\ Cardinality(Imports) \in Nat
<1>1. IsFiniteSet(Imports) /\ Imports \subseteq Nat
  BY LinkerAssumption, FS_Subset DEF Imports
<1>2. QED
  BY <1>1, FS_CardinalityType

(* Imports count upwards: the slot of an earlier one is a lower one.       *)
LEMMA IndexGrows ==
  ASSUME NEW i \in Imports, NEW S \in SUBSET Imports,
         \A j \in Imports : j <= i => j \in S
  PROVE  SlotIndex(i) \in Nat /\ SlotIndex(i) + 1 <= Cardinality(S)
<1> DEFINE T == {j \in Imports : j < i}
<1>1. IsFiniteSet(T) /\ Cardinality(T) \in Nat
  BY ImportsFinite, FS_Subset, FS_CardinalityType
<1>2. i \notin T /\ i \in Nat /\ T \union {i} \in SUBSET S
  <2>1. i \in Nat /\ ~(i < i) /\ i <= i
    BY ImportsFinite
  <2>2. ASSUME NEW j \in T PROVE j \in S
    <3>1. j \in Nat /\ j \in Imports /\ j < i
      BY ImportsFinite
    <3>2. j <= i
      BY <2>1, <3>1
    <3>3. QED
      BY <3>1, <3>2
  <2>3. i \notin T
    BY <2>1
  <2>4. QED
    BY <2>1, <2>2, <2>3
<1>3. Cardinality(T \union {i}) = Cardinality(T) + 1
  BY <1>1, <1>2, FS_AddElement
<1>4. IsFiniteSet(S)
  BY ImportsFinite, FS_Subset
<1>5. Cardinality(T \union {i}) <= Cardinality(S)
  BY <1>2, <1>4, FS_Subset
<1>6. QED
  BY <1>1, <1>3, <1>5 DEF SlotIndex

LEMMA IndexApart ==
  ASSUME NEW i \in Imports, NEW j \in Imports, i < j
  PROVE  SlotIndex(i) + 1 <= SlotIndex(j)
  BY IndexGrows, ImportsFinite DEF SlotIndex

LEMMA InitSlots == Init => SlotsOK
  BY DEF Init, SlotsOK

(* What moves neither slots nor sections.                                  *)
LEMMA SlotsKept ==
  ASSUME SlotsOK, UNCHANGED <<slots, sections, offsets>>, Merging' => Merging,
         \A c \in DOMAIN offsets : Contribution(c)' = Contribution(c)
  PROVE  SlotsOK'
  BY DEF SlotsOK, Apart

(* _reserve_iat: slots start behind every part and count upwards.          *)
LEMMA SlotsReserved ==
  ASSUME IInv, SlotsOK, ReserveIat
  PROVE  SlotsOK'
<1>1. ~Merging' /\ DOMAIN slots = {} /\ UNCHANGED <<objects, offsets>>
  BY DEF ReserveIat, inputs, Merging, SlotsOK
<1>2. CASE Imports = {}
  BY <1>1, <1>2 DEF ReserveIat, SlotsOK
<1>3. CASE Imports # {}
  <2> DEFINE start == AlignUp(Idata.raw, 8)
             Slot(y) == CHOOSE i \in Imports : ImportOrder[i] = y
  <2>1. /\ slots' = [y \in {ImportOrder[i] : i \in Imports} |-> start + SlotSize * SlotIndex(Slot(y))]
        /\ sections' = Put(sections, ".idata",
                           [Idata EXCEPT !.raw = start + SlotSize * Cardinality(Imports)])
    BY <1>3 DEF ReserveIat
  <2>2. Idata.raw \in Nat /\ (".idata" \in DOMAIN sections => Idata = sections[".idata"])
    BY DEF Idata, IInv, SectionsOK
  <2>3. start \in Nat /\ Idata.raw <= start
    BY <2>2, RoundsUp
  <2>4. sections'[".idata"].raw = start + SlotSize * Cardinality(Imports)
    <3>1. CASE ".idata" \in DOMAIN sections
      BY <2>1, <2>2, <3>1 DEF Put, IInv, SectionsOK, Idata
    <3>2. CASE ".idata" \notin DOMAIN sections
      BY <2>1, <3>2 DEF Put, Idata
    <3>3. QED
      BY <3>1, <3>2
  <2> HIDE DEF start
  <2>5. ASSUME NEW y \in DOMAIN slots'
        PROVE  Slot(y) \in Imports /\ ImportOrder[Slot(y)] = y
    BY <2>1
  <2> HIDE DEF Slot
  <2>6. ASSUME NEW y \in DOMAIN slots'
        PROVE  /\ slots'[y] = start + 8 * SlotIndex(Slot(y))
               /\ SlotIndex(Slot(y)) \in Nat /\ SlotIndex(Slot(y)) + 1 <= Cardinality(Imports)
    BY <2>1, <2>5, IndexGrows DEF SlotSize
  <2>7. ASSUME NEW y \in DOMAIN slots', NEW z \in DOMAIN slots', z # y
        PROVE  Apart(slots'[y], 8, slots'[z], 8)
    <3>1. /\ Slot(y) \in Nat /\ Slot(z) \in Nat /\ Slot(y) # Slot(z)
          /\ SlotIndex(Slot(y)) \in Nat /\ SlotIndex(Slot(z)) \in Nat
      BY <2>5, <2>6, <2>7, ImportsFinite
    <3>2. \/ SlotIndex(Slot(y)) + 1 <= SlotIndex(Slot(z))
          \/ SlotIndex(Slot(z)) + 1 <= SlotIndex(Slot(y))
      BY <2>5, <3>1, IndexApart
    <3>3. QED
      BY <2>3, <2>6, <3>1, <3>2 DEF Apart
  <2>8. ASSUME NEW y \in DOMAIN slots', NEW c \in DOMAIN offsets, c[2] = ".idata"
        PROVE  offsets[c] + Contribution(c).raw <= slots'[y]
    <3>1. /\ IsPart(c) /\ ".idata" \in DOMAIN sections /\ offsets[c] \in Nat
          /\ offsets[c] + Contribution(c).raw <= sections[".idata"].raw
      BY <2>8 DEF IInv, PartsOK
    <3>2. Contribution(c).raw \in Nat
      BY <3>1, PartType DEF IInv, InputsOK
    <3>3. QED
      BY <2>2, <2>3, <2>6, <3>1, <3>2
  <2>9. \A c \in DOMAIN offsets : Contribution(c)' = Contribution(c)
    BY <1>1 DEF Contribution
  <2>10. ASSUME NEW y \in DOMAIN slots'
         PROVE  slots'[y] \in Nat /\ slots'[y] + 8 <= sections'[".idata"].raw
    BY <2>3, <2>4, <2>6, ImportsFinite DEF SlotSize
  <2>11. QED
    BY <1>1, <2>7, <2>8, <2>9, <2>10 DEF SlotsOK
<1>4. QED
  BY <1>2, <1>3

LEMMA NextSlots == IInv /\ SlotsOK /\ [Next]_vars => SlotsOK'
<1> SUFFICES ASSUME IInv, SlotsOK, [Next]_vars PROVE SlotsOK'
  OBVIOUS
<1>1. CASE NextSections \/ MergeSymbol \/ NextSymbols \/ PlaceSection \/ Bind \/ Apply \/ UNCHANGED vars
  <2>1. /\ UNCHANGED <<objects, sections, offsets, slots>>
        /\ Merging' => Merging
    BY <1>1 DEF NextSections, MergeSymbol, NextSymbols, PlaceSection, Bind, Apply, vars, inputs, Merging
  <2>2. \A c \in DOMAIN offsets : Contribution(c)' = Contribution(c)
    BY <2>1 DEF Contribution
  <2>3. QED
    BY <2>1, <2>2, SlotsKept
<1>2. CASE MergeSection
  BY <1>2 DEF MergeSection, SlotsOK, Merging
<1>3. ASSUME NEW b \in Bases, Relink(b) PROVE SlotsOK'
  BY <1>3 DEF Relink, SlotsOK
<1>4. ASSUME NEW o \in Pool, AddObject(o) PROVE SlotsOK'
  <2>1. UNCHANGED <<sections, offsets, slots>> /\ ~Merging'
    BY <1>4 DEF AddObject, Merging
  <2>2. \A c \in DOMAIN offsets : Contribution(c)' = Contribution(c)
    BY <1>4, PartKept DEF AddObject, IInv, InputsOK, PartsOK
  <2>3. QED
    BY <2>1, <2>2, SlotsKept
<1>5. QED
  BY <1>1, <1>2, <1>3, <1>4, SlotsReserved DEF Next, Link

(* The .idata of an object has no zero-filled tail.                        *)
ImportsBare ==
  \A o \in Pool : \A m \in DOMAIN o.sections :
    o.sections[m].name = ".idata" => o.sections[m].virt <= o.sections[m].raw

(* _reserve_iat: the slot of an import is its own, whatever .idata holds   *)
(* and however many imports there are: no other slot and no contribution   *)
(* of an object (without a tail) has a byte of it.                         *)
THEOREM SlotSeparation ==
  ASSUME ImportsBare
  PROVE  Spec => []SlotsApart
<1>1. IInv /\ SlotsOK => SlotsApart
  <2> SUFFICES ASSUME IInv, SlotsOK PROVE SlotsApart
    OBVIOUS
  <2>1. ASSUME NEW y \in DOMAIN slots, NEW c \in DOMAIN offsets, c[2] = ".idata"
        PROVE  Apart(slots[y], 8, offsets[c], VirtualSize(Contribution(c)))
    <3>1. VirtualSize(Contribution(c)) = Contribution(c).raw
      BY <2>1, PartOf, Parts DEF ImportsBare, VirtualSize, Larger
    <3>2. QED
      BY <2>1, <3>1 DEF SlotsOK, Apart
  <2>2. QED
    BY <2>1 DEF SlotsOK, SlotsApart
<1>2. Spec => []SlotsOK
  BY InitSlots, NextSlots, Invariance, PTL DEF Spec
<1>3. QED
  BY <1>1, <1>2, Invariance, PTL

(***************************************************************************)
(* Names.  What a name may be, for the properties about them to hold.      *)
(***************************************************************************)
SymbolsIn(o) == {o.symbols[m] : m \in DOMAIN o.symbols}
RelocsIn(o) == UNION {o.sections[m].relocs : m \in DOMAIN o.sections}

(* No two fields of a section begin at one place.                          *)
FieldsAlone ==
  \A o \in Pool : \A m \in DOMAIN o.sections : \A r, t \in o.sections[m].relocs :
    r.off = t.off => r = t

(***************************************************************************)
(* Where everything in the tables comes from.                              *)
(***************************************************************************)
Distinct == \A i, j \in DOMAIN objects : objects[i] = objects[j] => i = j

SectionDone(i, m) == phase # "sections" \/ i < k \/ (i = k /\ m < n)
Assembled ==
  \A i \in DOMAIN objects : \A m \in DOMAIN objects[i].sections :
    SectionDone(i, m) <=> <<i, objects[i].sections[m].name>> \in DOMAIN offsets

(* A relocation of object i, where its part of section s is.               *)
Carried(i, s, r) ==
  [off |-> r.off + offsets[<<i, s>>], kind |-> r.kind, sym |-> r.sym, add |-> r.add,
   adj |-> r.adj, from |-> <<i, s, r.off>>]
FieldsCarried ==
  \A s \in DOMAIN sections : \A r \in sections[s].relocs :
    \E i \in DOMAIN objects : \E m \in DOMAIN objects[i].sections :
      /\ objects[i].sections[m].name = s /\ <<i, s>> \in DOMAIN offsets
      /\ \E t \in objects[i].sections[m].relocs : r = Carried(i, s, t)

SectionsOrdered == \A s \in DOMAIN sections : \E p \in DOMAIN SectionOrder : SectionOrder[p] = s

(* A symbol of object j, where its section is.                             *)
MovedOf(j, y) ==
  [kind |-> y.kind, sec |-> y.sec,
   val |-> IF y.kind \in {"local", "global"} THEN y.val + offsets[<<j, y.sec>>] ELSE y.val,
   more |-> y.more]
Originates(a) ==
  \/ a \in DOMAIN Absolutes /\ table[a] = AbsoluteEntry(a)
  \/ \E j \in DOMAIN objects : \E y \in SymbolsOf(j) : y.name = a /\ table[a] = MovedOf(j, y)

Entering == phase \in {"symbols", "duplicate"}
SymbolDone(j, m) == ~Entering \/ j < k \/ (j = k /\ m < n)
DoneGlobal(j, m) == SymbolDone(j, m) /\ objects[j].symbols[m].kind = "global"

(* The table has the name of a global that was entered: as that global, or *)
(* as what took its place, which is defined.                               *)
GlobalsStay ==
  \A j \in DOMAIN objects : \A m \in DOMAIN objects[j].symbols : DoneGlobal(j, m) =>
    LET y == objects[j].symbols[m]
    IN  /\ y.name \in DOMAIN table /\ table[y.name].kind # "undefined"
        /\ table[y.name].kind = "global" => table[y.name] = MovedOf(j, y)

GlobalsAgree ==
  \A i, j \in DOMAIN objects : \A l \in DOMAIN objects[i].symbols, m \in DOMAIN objects[j].symbols :
    LET y == objects[i].symbols[l]
        z == objects[j].symbols[m]
    IN  DoneGlobal(i, l) /\ DoneGlobal(j, m) /\ y.name = z.name => MovedOf(i, y) = MovedOf(j, z)

NamesOK ==
  /\ Distinct /\ k # 0 /\ n # 0
  /\ phase # "idle" =>
       /\ Assembled /\ FieldsCarried /\ SectionsOrdered
       /\ phase = "sections" => DOMAIN table = {}
       /\ phase # "sections" => \A a \in DOMAIN table : Originates(a)

GlobalsOK == phase \notin {"idle", "sections"} => GlobalsStay /\ GlobalsAgree

(* In a section, the bytes of an object are before those of a later one.   *)
PartsInOrder ==
  \A c, d \in DOMAIN offsets :
    c[2] = d[2] /\ c[1] < d[1] => offsets[c] + Contribution(c).raw <= offsets[d]

LinkedOK ==
  /\ phase \notin {"idle", "sections", "symbols", "iat", "duplicate"} =>
       \A a \in DOMAIN table : table[a].kind = "import" =>
         a \in DOMAIN slots /\ ".idata" \in DOMAIN sections
  /\ phase \in {"apply", "linked"} => Unplaced = {} /\ Missing = {}
  /\ phase = "linked" => result.contents = Relocated

(***************************************************************************)
(* Names and sections stay what they are.                                  *)
(***************************************************************************)
LEMMA ObjectTables ==
  ASSUME NEW o \in Pool
  PROVE  /\ \E l \in Nat : DOMAIN o.sections = 1 .. l
         /\ \E l \in Nat : DOMAIN o.symbols = 1 .. l
         /\ \A m \in DOMAIN o.sections : o.sections[m] \in ObjectSections
         /\ \A m \in DOMAIN o.symbols : o.symbols[m] \in ObjectSymbols
         /\ \A l, m \in DOMAIN o.sections : o.sections[l].name = o.sections[m].name => l = m
         /\ \A l, m \in DOMAIN o.symbols : o.symbols[l].name = o.symbols[m].name => l = m
<1>1. IsObject(o)
  BY LinkerAssumption
<1>2. o.sections \in Seq(ObjectSections) /\ o.symbols \in Seq(ObjectSymbols)
  BY <1>1 DEF IsObject
<1>3. \A S : \A s \in Seq(S) : \E l \in Nat : DOMAIN s = 1 .. l
  OBVIOUS
<1>4. /\ \A m \in DOMAIN o.sections : o.sections[m] \in ObjectSections
      /\ \A m \in DOMAIN o.symbols : o.symbols[m] \in ObjectSymbols
  BY <1>2, ElementOf
<1>5. (\E l \in Nat : DOMAIN o.sections = 1 .. l) /\ (\E l \in Nat : DOMAIN o.symbols = 1 .. l)
  BY <1>2, <1>3
<1>6. QED
  BY <1>1, <1>4, <1>5 DEF IsObject

(* What a step that merges nothing leaves as it is.                        *)
LEMMA PartsNamed ==
  ASSUME NamesOK, phase # "idle", UNCHANGED <<objects, sections, offsets>>
  PROVE  /\ Distinct' /\ FieldsCarried' /\ SectionsOrdered'
         /\ \A j, y : MovedOf(j, y)' = MovedOf(j, y)
         /\ \A j : SymbolsOf(j)' = SymbolsOf(j)
<1>1. /\ \A i, s, r : Carried(i, s, r)' = Carried(i, s, r)
      /\ \A j, y : MovedOf(j, y)' = MovedOf(j, y)
      /\ \A j : SymbolsOf(j)' = SymbolsOf(j)
  BY DEF Carried, MovedOf, SymbolsOf
<1>2. Distinct' /\ SectionsOrdered'
  BY DEF NamesOK, Distinct, SectionsOrdered
<1>3. FieldsCarried'
  <2> SUFFICES ASSUME NEW s \in DOMAIN sections, NEW r \in sections[s].relocs
               PROVE  \E i \in DOMAIN objects : \E m \in DOMAIN objects[i].sections :
                        /\ objects[i].sections[m].name = s /\ <<i, s>> \in DOMAIN offsets
                        /\ \E t \in objects[i].sections[m].relocs : r = Carried(i, s, t)'
    BY DEF FieldsCarried
  <2>1. FieldsCarried
    BY DEF NamesOK
  <2>2. QED
    BY <1>1, <2>1 DEF FieldsCarried
<1>4. QED
  BY <1>1, <1>2, <1>3

LEMMA OriginKept ==
  ASSUME NamesOK, phase # "idle", UNCHANGED <<objects, sections, offsets>>,
         NEW a \in DOMAIN table, Originates(a), table'[a] = table[a]
  PROVE  Originates(a)'
<1>1. CASE a \in DOMAIN Absolutes /\ table[a] = AbsoluteEntry(a)
  BY <1>1 DEF Originates
<1>2. CASE \E j \in DOMAIN objects : \E y \in SymbolsOf(j) : y.name = a /\ table[a] = MovedOf(j, y)
  <2>0. PICK j \in DOMAIN objects : \E y \in SymbolsOf(j) : y.name = a /\ table[a] = MovedOf(j, y)
    BY <1>2
  <2>1. PICK y \in SymbolsOf(j) : y.name = a /\ table[a] = MovedOf(j, y)
    BY <2>0
  <2>2. y \in SymbolsOf(j)' /\ table'[a] = MovedOf(j, y)' /\ j \in DOMAIN objects'
    BY <2>1, PartsNamed
  <2>3. QED
    BY <2>1, <2>2 DEF Originates
<1>3. QED
  BY <1>1, <1>2 DEF Originates

(* What a step that moves no table entry leaves as it is.                  *)
LEMMA NamesKept ==
  ASSUME NamesOK, UNCHANGED <<objects, sections, offsets, table>>, k' # 0, n' # 0,
         phase \notin {"idle", "sections"}, phase' \notin {"idle", "sections"}
  PROVE  NamesOK'
<1>1. Assembled'
  BY DEF NamesOK, Assembled, SectionDone
<1>2. \A a \in DOMAIN table : Originates(a)'
  BY OriginKept DEF NamesOK
<1>3. QED
  BY <1>1, <1>2, PartsNamed DEF NamesOK

LEMMA MergeNames ==
  ASSUME IInv, NamesOK, MergeSection
  PROVE  NamesOK'
<1> DEFINE s == objects[k].sections[n]
           dst == IF s.name \in DOMAIN sections THEN sections[s.name] ELSE Fresh(s)
           start == Start(dst, s)
           key == <<k, s.name>>
<1>1. /\ phase = "sections" /\ phase' = "sections"
      /\ k \in DOMAIN objects /\ n \in DOMAIN objects[k].sections
      /\ sections' = Put(sections, s.name, Merged(dst, s, start))
      /\ offsets' = Put(offsets, key, start)
      /\ n' = n + 1 /\ UNCHANGED <<objects, k, table>>
  BY DEF MergeSection, inputs
<1>2. /\ objects[k] \in Pool /\ k \in Nat /\ n \in Nat
      /\ \A i \in DOMAIN objects : i \in Nat /\ objects[i] \in Pool
  BY <1>1 DEF IInv, InputsOK
<1>3. \A i \in DOMAIN objects : \A m \in DOMAIN objects[i].sections : m \in Nat
  <2> SUFFICES ASSUME NEW i \in DOMAIN objects PROVE \A m \in DOMAIN objects[i].sections : m \in Nat
    OBVIOUS
  <2>1. \E l \in Nat : DOMAIN objects[i].sections = 1 .. l
    BY <1>2, ObjectTables
  <2>2. QED
    BY <2>1
<1>4. \A m \in DOMAIN objects[k].sections : objects[k].sections[m].name = s.name => m = n
  BY <1>1, <1>2, ObjectTables
<1>5. key \notin DOMAIN offsets
  <2>1. ~SectionDone(k, n)
    BY <1>1, <1>2 DEF SectionDone
  <2>2. QED
    BY <1>1, <2>1 DEF NamesOK, Assembled
<1>6. DOMAIN offsets' = DOMAIN offsets \union {key} /\ offsets'[key] = start
      /\ \A c \in DOMAIN offsets : offsets'[c] = offsets[c]
  BY <1>1, <1>5 DEF Put
<1>7. Assembled'
  <2> SUFFICES ASSUME NEW i \in DOMAIN objects, NEW m \in DOMAIN objects[i].sections
               PROVE  SectionDone(i, m)' <=> <<i, objects[i].sections[m].name>> \in DOMAIN offsets'
    BY <1>1 DEF Assembled
  <2>1. SectionDone(i, m)' <=> SectionDone(i, m) \/ (i = k /\ m = n)
    BY <1>1, <1>2, <1>3 DEF SectionDone
  <2>2. SectionDone(i, m) <=> <<i, objects[i].sections[m].name>> \in DOMAIN offsets
    BY <1>1 DEF NamesOK, Assembled
  <2>3. <<i, objects[i].sections[m].name>> = key <=> i = k /\ m = n
    BY <1>4
  <2>4. QED
    BY <1>6, <2>1, <2>2, <2>3
<1>8. FieldsCarried'
  <2>0. objects' = objects
    BY <1>1
  <2> SUFFICES ASSUME NEW t \in DOMAIN sections', NEW r \in sections'[t].relocs
               PROVE  \E i \in DOMAIN objects : \E m \in DOMAIN objects[i].sections :
                        /\ objects[i].sections[m].name = t /\ <<i, t>> \in DOMAIN offsets'
                        /\ \E u \in objects[i].sections[m].relocs : r = Carried(i, t, u)'
    BY <2>0 DEF FieldsCarried
  <2>1. CASE t \in DOMAIN sections /\ r \in sections[t].relocs
    <3>1. PICK i \in DOMAIN objects : \E m \in DOMAIN objects[i].sections :
            /\ objects[i].sections[m].name = t /\ <<i, t>> \in DOMAIN offsets
            /\ \E u \in objects[i].sections[m].relocs : r = Carried(i, t, u)
      BY <1>1, <2>1 DEF NamesOK, FieldsCarried
    <3>2. \A u : Carried(i, t, u)' = Carried(i, t, u)
      BY <1>6, <3>1 DEF Carried
    <3>3. QED
      BY <1>6, <3>1, <3>2
  <2>2. CASE ~(t \in DOMAIN sections /\ r \in sections[t].relocs)
    <3>1. t = s.name /\ r \in Merged(dst, s, start).relocs
      BY <1>1, <2>2 DEF Put
    <3>2. r \notin dst.relocs
      BY <2>2, <3>1 DEF Fresh
    <3> HIDE DEF dst, start
    <3>3. PICK u \in s.relocs :
            r = [off |-> u.off + start, kind |-> u.kind, sym |-> u.sym, add |-> u.add, adj |-> u.adj,
                 from |-> <<k, s.name, u.off>>]
      BY <3>1, <3>2 DEF Merged
    <3>4. r = Carried(k, t, u)'
      BY <1>1, <1>6, <3>1, <3>3 DEF Carried
    <3>5. QED
      BY <1>1, <1>6, <3>1, <3>4
  <2>3. QED
    BY <2>1, <2>2
<1>9. SectionsOrdered'
  <2>1. \E p \in DOMAIN SectionOrder : SectionOrder[p] = s.name
    BY <1>1, <1>2, LinkerAssumption DEF Ordered
  <2>2. DOMAIN sections' = DOMAIN sections \union {s.name}
    BY <1>1 DEF Put
  <2>3. QED
    BY <1>1, <2>1, <2>2 DEF NamesOK, SectionsOrdered
<1>10. Distinct' /\ k' # 0 /\ n' # 0 /\ DOMAIN table' = {}
  BY <1>1, <1>2 DEF NamesOK, Distinct
<1>11. QED
  BY <1>1, <1>7, <1>8, <1>9, <1>10 DEF NamesOK

LEMMA AdvanceNames ==
  ASSUME IInv, NamesOK, NextSections
  PROVE  NamesOK'
<1>1. /\ phase = "sections" /\ UNCHANGED <<objects, sections, offsets>>
      /\ \/ /\ k \in DOMAIN objects /\ n \notin DOMAIN objects[k].sections
            /\ k' = k + 1 /\ n' = 1 /\ UNCHANGED <<phase, table>>
         \/ /\ k \notin DOMAIN objects
            /\ phase' = "symbols" /\ k' = 1 /\ n' = 1
            /\ table' = [a \in DOMAIN Absolutes |->
                           AbsoluteEntry(a)]
  BY DEF NextSections, inputs
<1>2. /\ k \in Nat \ {0} /\ n \in Nat \ {0} /\ objects \in Seq(Pool)
      /\ \A i \in DOMAIN objects : i \in Nat /\ objects[i] \in Pool
  BY DEF IInv, InputsOK, NamesOK
<1>3. k' # 0 /\ n' # 0
  <2>1. k' \in {1, k + 1} /\ n' = 1
    BY <1>1
  <2>2. QED
    BY <1>2, <2>1
<1>4. Distinct' /\ SectionsOrdered' /\ FieldsCarried'
  BY <1>1, PartsNamed
<1>5. Assembled'
  <2> SUFFICES ASSUME NEW i \in DOMAIN objects, NEW m \in DOMAIN objects[i].sections
               PROVE  SectionDone(i, m)' <=> SectionDone(i, m)
    BY <1>1 DEF Assembled, NamesOK
  <2>1. PICK l \in Nat : DOMAIN objects[i].sections = 1 .. l
    BY <1>2, ObjectTables
  <2>2. i \in Nat /\ m \in 1 .. l /\ (i = k => m < n \/ n \in DOMAIN objects[k].sections)
    BY <1>2, <2>1
  <2>3. CASE k \in DOMAIN objects
    <3>1. phase = "sections" /\ phase' = "sections" /\ k' = k + 1 /\ n' = 1
          /\ (i = k => m < n)
      BY <1>1, <2>2, <2>3
    <3>2. i \in Nat /\ m \in Nat \ {0} /\ k \in Nat /\ n \in Nat
      BY <1>2, <2>2
    <3>3. QED
      BY <3>1, <3>2 DEF SectionDone
  <2>4. CASE k \notin DOMAIN objects
    <3>1. i < k
      BY <1>2, <2>4
    <3>2. QED
      BY <1>1, <2>4, <3>1 DEF SectionDone
  <2>5. QED
    BY <2>3, <2>4
<1>6. /\ phase' = "sections" => DOMAIN table' = {}
      /\ phase' # "sections" => \A a \in DOMAIN table' : Originates(a)'
  BY <1>1 DEF NamesOK, Originates
<1>7. QED
  BY <1>3, <1>4, <1>5, <1>6 DEF NamesOK

LEMMA MovedIsMovedOf ==
  ASSUME NEW y
  PROVE  Moved(y) = MovedOf(k, y)
  BY DEF Moved, MovedOf

LEMMA SymbolNames ==
  ASSUME IInv, NamesOK, MergeSymbol
  PROVE  NamesOK'
<1>0. PICK y : y = objects[k].symbols[n]
  OBVIOUS
<1>1. /\ phase = "symbols" /\ k \in DOMAIN objects /\ n \in DOMAIN objects[k].symbols
      /\ UNCHANGED <<objects, sections, offsets, k>>
      /\ \/ phase' = "duplicate" /\ n' = n /\ table' = table
         \/ phase' = phase /\ n' = n + 1 /\ table' = table
         \/ phase' = phase /\ n' = n + 1 /\ table' = Put(table, y.name, Moved(y))
  BY <1>0 DEF MergeSymbol, inputs
<1>2. k' # 0 /\ n' # 0
  BY <1>1 DEF IInv, InputsOK, NamesOK
<1>3. CASE table' = table
  BY <1>1, <1>2, <1>3, NamesKept
<1>4. CASE table' = Put(table, y.name, Moved(y))
  <2>1. /\ \A j, z : MovedOf(j, z)' = MovedOf(j, z)
        /\ \A j : SymbolsOf(j)' = SymbolsOf(j)
    BY <1>1, PartsNamed
  <2>2. Distinct' /\ SectionsOrdered' /\ FieldsCarried'
    BY <1>1, PartsNamed
  <2>3. Assembled'
    BY <1>1 DEF NamesOK, Assembled, SectionDone
  <2>4. ASSUME NEW a \in DOMAIN table' PROVE Originates(a)'
    <3>1. CASE a = y.name
      <4>1. table'[a] = MovedOf(k, y)'
        BY <1>1, <1>4, <2>1, <3>1, MovedIsMovedOf DEF Put
      <4>2. y \in SymbolsOf(k)'
        BY <1>0, <1>1, <2>1 DEF SymbolsOf
      <4>3. QED
        BY <1>1, <3>1, <4>1, <4>2 DEF Originates
    <3>2. CASE a # y.name
      <4>1. a \in DOMAIN table /\ table'[a] = table[a]
        BY <1>4, <3>2 DEF Put
      <4>2. Originates(a)
        BY <1>1, <4>1 DEF NamesOK
      <4>3. QED
        BY <1>1, <4>1, <4>2, OriginKept
    <3>3. QED
      BY <3>1, <3>2
  <2>5. phase' \notin {"idle", "sections"}
    BY <1>1
  <2>6. QED
    BY <1>2, <2>2, <2>3, <2>4, <2>5 DEF NamesOK
<1>5. QED
  BY <1>1, <1>3, <1>4

LEMMA ReserveNames ==
  ASSUME IInv, NamesOK, ReserveIat
  PROVE  NamesOK'
<1>1. /\ phase = "iat" /\ phase' = "layout" /\ UNCHANGED <<objects, offsets, table, k, n>>
      /\ \/ UNCHANGED sections
         \/ \E e : sections' = Put(sections, ".idata", [Idata EXCEPT !.raw = e])
  BY DEF ReserveIat, inputs
<1>2. CASE UNCHANGED sections
  BY <1>1, <1>2, NamesKept DEF NamesOK
<1>3. ASSUME NEW e, sections' = Put(sections, ".idata", [Idata EXCEPT !.raw = e])
      PROVE  NamesOK'
  <2>1. /\ \A i, s, r : Carried(i, s, r)' = Carried(i, s, r)
        /\ \A j, z : MovedOf(j, z)' = MovedOf(j, z)
        /\ \A j : SymbolsOf(j)' = SymbolsOf(j)
    BY <1>1 DEF Carried, MovedOf, SymbolsOf
  <2>2. Distinct' /\ Assembled' /\ \A a \in DOMAIN table : Originates(a)'
    <3>1. Distinct'
      BY <1>1 DEF NamesOK, Distinct
    <3>2. Assembled'
      BY <1>1 DEF NamesOK, Assembled, SectionDone
    <3>3. \A a \in DOMAIN table : Originates(a)'
      BY <1>1, <2>1 DEF NamesOK, Originates
    <3>4. QED
      BY <3>1, <3>2, <3>3
  <2>3. SectionsOrdered'
    BY <1>1, <1>3, LinkerAssumption DEF NamesOK, SectionsOrdered, Put
  <2>4. ASSUME NEW s \in DOMAIN sections', NEW r \in sections'[s].relocs
        PROVE  s \in DOMAIN sections /\ r \in sections[s].relocs
    <3>1. CASE ".idata" \in DOMAIN sections
      <4>1. Idata = sections[".idata"] /\ "relocs" \in DOMAIN sections[".idata"]
        BY <3>1 DEF Idata, IInv, SectionsOK
      <4>2. [Idata EXCEPT !.raw = e].relocs = sections[".idata"].relocs
        BY <4>1
      <4>3. QED
        BY <1>3, <2>4, <3>1, <4>2 DEF Put
    <3>2. CASE ".idata" \notin DOMAIN sections
      <4>1. [Idata EXCEPT !.raw = e].relocs = {}
        BY <3>2 DEF Idata
      <4>2. QED
        BY <1>3, <2>4, <4>1 DEF Put
    <3>3. QED
      BY <3>1, <3>2
  <2>5. FieldsCarried'
    BY <1>1, <2>1, <2>4 DEF NamesOK, FieldsCarried
  <2>6. QED
    BY <1>1, <2>2, <2>3, <2>5 DEF NamesOK
<1>4. QED
  BY <1>1, <1>2, <1>3

LEMMA AddNames ==
  ASSUME IInv, NamesOK, NEW o \in Pool, AddObject(o)
  PROVE  NamesOK'
<1>1. /\ objects \in Seq(Pool) /\ objects' = Append(objects, o) /\ phase' = "idle"
      /\ \A i \in DOMAIN objects : objects[i] # o
      /\ UNCHANGED <<k, n>>
  BY DEF AddObject, IInv, InputsOK
<1>2. PICK l \in Nat : l = Len(objects)
  BY <1>1
<1>3. /\ DOMAIN objects = 1 .. l /\ DOMAIN objects' = 1 .. l + 1
      /\ objects'[l + 1] = o /\ \A i \in 1 .. l : objects'[i] = objects[i]
  BY <1>1, <1>2
<1>4. Distinct'
  <2> SUFFICES ASSUME NEW i \in 1 .. l + 1, NEW j \in 1 .. l + 1, objects'[i] = objects'[j]
               PROVE  i = j
    BY <1>3 DEF Distinct
  <2>1. CASE i \in 1 .. l /\ j \in 1 .. l
    BY <1>3, <2>1 DEF NamesOK, Distinct
  <2>2. CASE i = l + 1 \/ j = l + 1
    BY <1>1, <1>3, <2>2
  <2>3. QED
    BY <2>1, <2>2
<1>5. QED
  BY <1>1, <1>4 DEF NamesOK

LEMMA RelinkNames ==
  ASSUME IInv, NamesOK, NEW b \in Bases, Relink(b)
  PROVE  NamesOK'
<1>1. /\ phase' = "sections" /\ k' = 1 /\ n' = 1 /\ UNCHANGED objects
      /\ DOMAIN sections' = {} /\ DOMAIN offsets' = {} /\ DOMAIN table' = {}
  BY DEF Relink
<1>2. Distinct' /\ SectionsOrdered' /\ FieldsCarried'
  BY <1>1 DEF NamesOK, Distinct, SectionsOrdered, FieldsCarried
<1>3. Assembled'
  <2> SUFFICES ASSUME NEW i \in DOMAIN objects, NEW m \in DOMAIN objects[i].sections
               PROVE  ~SectionDone(i, m)'
    BY <1>1 DEF Assembled
  <2>1. i \in Nat \ {0} /\ objects[i] \in Pool
    BY DEF IInv, InputsOK
  <2>2. PICK l \in Nat : DOMAIN objects[i].sections = 1 .. l
    BY <2>1, ObjectTables
  <2>3. QED
    BY <1>1, <2>1, <2>2 DEF SectionDone
<1>4. QED
  BY <1>1, <1>2, <1>3 DEF NamesOK

LEMMA InitNames == Init => NamesOK
  BY DEF Init, NamesOK, Distinct

LEMMA NextNames == IInv /\ NamesOK /\ [Next]_vars => NamesOK'
<1> SUFFICES ASSUME IInv, NamesOK, [Next]_vars PROVE NamesOK'
  OBVIOUS
<1>1. CASE NextSymbols \/ PlaceSection \/ Bind \/ Apply
  <2>1. /\ UNCHANGED <<objects, sections, offsets, table>>
        /\ phase \notin {"idle", "sections"} /\ phase' \notin {"idle", "sections"}
    BY <1>1 DEF NextSymbols, PlaceSection, Bind, Apply, inputs
  <2>2. k' \in {k, k + 1} /\ n' \in {1, n}
    BY <1>1 DEF NextSymbols, PlaceSection, Bind, Apply
  <2>3. QED
    BY <2>1, <2>2, NamesKept DEF IInv, InputsOK, NamesOK
<1>2. CASE UNCHANGED vars
  <2>1. UNCHANGED <<objects, sections, offsets, table, phase, k, n>>
    BY <1>2 DEF vars, inputs
  <2>2. CASE phase = "idle"
    BY <2>1, <2>2 DEF NamesOK, Distinct
  <2>3. CASE phase # "idle"
    <3>1. Assembled'
      BY <2>1, <2>3 DEF NamesOK, Assembled, SectionDone
    <3>2. phase # "sections" => \A a \in DOMAIN table : Originates(a)'
      BY <2>1, <2>3, OriginKept DEF NamesOK
    <3>3. QED
      BY <2>1, <2>3, <3>1, <3>2, PartsNamed DEF NamesOK
  <2>4. QED
    BY <2>2, <2>3
<1>3. QED
  BY <1>1, <1>2, MergeNames, AdvanceNames, SymbolNames, ReserveNames, AddNames, RelinkNames
     DEF Next, Link

(***************************************************************************)
(* Globals: who defines a name for all.                                    *)
(***************************************************************************)
LEMMA InitGlobals == Init => GlobalsOK
  BY DEF Init, GlobalsOK

(* Entries and globals are the same after a step that enters none.         *)
LEMMA GlobalsKept ==
  ASSUME NamesOK, GlobalsStay, GlobalsAgree, phase # "idle",
         UNCHANGED <<objects, sections, offsets, table>>,
         \A j \in DOMAIN objects : \A m \in DOMAIN objects[j].symbols :
           SymbolDone(j, m)' => SymbolDone(j, m)
  PROVE  GlobalsStay' /\ GlobalsAgree'
<1>1. \A j, y : MovedOf(j, y)' = MovedOf(j, y)
  BY PartsNamed
<1>2. ASSUME NEW j \in DOMAIN objects, NEW m \in DOMAIN objects[j].symbols, DoneGlobal(j, m)'
      PROVE  DoneGlobal(j, m)
  BY <1>2 DEF DoneGlobal
<1>3. GlobalsStay'
  <2> SUFFICES ASSUME NEW j \in DOMAIN objects, NEW m \in DOMAIN objects[j].symbols,
                      DoneGlobal(j, m)'
               PROVE  LET y == objects[j].symbols[m]
                      IN  /\ y.name \in DOMAIN table /\ table[y.name].kind # "undefined"
                          /\ table[y.name].kind = "global" => table[y.name] = MovedOf(j, y)'
    BY DEF GlobalsStay
  <2>1. DoneGlobal(j, m)
    BY <1>2
  <2>2. QED
    BY <1>1, <2>1 DEF GlobalsStay
<1>4. GlobalsAgree'
  <2> SUFFICES ASSUME NEW i \in DOMAIN objects, NEW l \in DOMAIN objects[i].symbols,
                      NEW j \in DOMAIN objects, NEW m \in DOMAIN objects[j].symbols,
                      DoneGlobal(i, l)', DoneGlobal(j, m)',
                      objects[i].symbols[l].name = objects[j].symbols[m].name
               PROVE  MovedOf(i, objects[i].symbols[l])' = MovedOf(j, objects[j].symbols[m])'
    BY DEF GlobalsAgree
  <2>1. DoneGlobal(i, l) /\ DoneGlobal(j, m)
    BY <1>2
  <2>2. QED
    BY <1>1, <2>1 DEF GlobalsAgree
<1>5. QED
  BY <1>3, <1>4

(* A global that goes in is what every global of its name is, and what     *)
(* takes the place of a global is defined.                                 *)
LEMMA SymbolGlobals ==
  ASSUME IInv, NamesOK, GlobalsOK, MergeSymbol
  PROVE  GlobalsOK'
<1>0. PICK y : y = objects[k].symbols[n]
  OBVIOUS
<1>1. /\ phase = "symbols" /\ k \in DOMAIN objects /\ n \in DOMAIN objects[k].symbols
      /\ UNCHANGED <<objects, sections, offsets, k>>
      /\ \/ phase' = "duplicate" /\ n' = n /\ table' = table
         \/ /\ ~Clash(y) /\ n' = n + 1 /\ phase' = "symbols"
            /\ table' = IF Enters(y) THEN Put(table, y.name, Moved(y)) ELSE table
  BY <1>0 DEF MergeSymbol, inputs
<1>2. /\ k \in Nat /\ n \in Nat /\ \A i \in DOMAIN objects : i \in Nat /\ objects[i] \in Pool
      /\ GlobalsStay /\ GlobalsAgree
  BY <1>1 DEF IInv, InputsOK, GlobalsOK
<1>3. CASE phase' = "duplicate" /\ n' = n /\ table' = table
  BY <1>1, <1>2, <1>3, GlobalsKept DEF SymbolDone, Entering, GlobalsOK
<1>4. CASE /\ ~Clash(y) /\ n' = n + 1 /\ phase' = "symbols"
           /\ table' = IF Enters(y) THEN Put(table, y.name, Moved(y)) ELSE table
  <2>1. \A j, z : MovedOf(j, z)' = MovedOf(j, z)
    BY <1>1, PartsNamed
  <2>2. ASSUME NEW j \in DOMAIN objects, NEW m \in DOMAIN objects[j].symbols
        PROVE  m \in Nat
    <3>1. \E l \in Nat : DOMAIN objects[j].symbols = 1 .. l
      BY <1>2, ObjectTables
    <3>2. QED
      BY <3>1
  <2>3. ASSUME NEW j \in DOMAIN objects, NEW m \in DOMAIN objects[j].symbols, DoneGlobal(j, m)'
        PROVE  objects[j].symbols[m].kind = "global"
               /\ (DoneGlobal(j, m) \/ (j = k /\ m = n /\ objects[j].symbols[m] = y))
    <3>1. m \in Nat /\ j \in Nat
      BY <1>2, <2>2
    <3>2. QED
      BY <1>0, <1>1, <1>2, <1>4, <2>3, <3>1 DEF DoneGlobal, SymbolDone, Entering
  <2>4. ASSUME NEW j \in DOMAIN objects, NEW m \in DOMAIN objects[j].symbols, DoneGlobal(j, m),
               y.kind = "global", objects[j].symbols[m].name = y.name
        PROVE  MovedOf(j, objects[j].symbols[m]) = MovedOf(k, y)
    <3> DEFINE z == objects[j].symbols[m]
    <3>1. /\ z.name \in DOMAIN table /\ table[z.name].kind # "undefined"
          /\ table[z.name].kind = "global" => table[z.name] = MovedOf(j, z)
      BY <1>2, <2>4 DEF GlobalsStay
    <3>2. table[y.name] = Moved(y)
      BY <1>4, <2>4, <3>1 DEF Clash
    <3>3. table[y.name] = MovedOf(k, y) /\ table[y.name].kind = "global"
      BY <2>4, <3>2, MovedIsMovedOf DEF MovedOf
    <3>4. QED
      BY <2>4, <3>1, <3>3
  <2>5. GlobalsAgree'
    <3> SUFFICES ASSUME NEW i \in DOMAIN objects, NEW l \in DOMAIN objects[i].symbols,
                        NEW j \in DOMAIN objects, NEW m \in DOMAIN objects[j].symbols,
                        DoneGlobal(i, l)', DoneGlobal(j, m)',
                        objects[i].symbols[l].name = objects[j].symbols[m].name
                 PROVE  MovedOf(i, objects[i].symbols[l]) = MovedOf(j, objects[j].symbols[m])
      BY <1>1, <2>1 DEF GlobalsAgree
    <3>1. CASE DoneGlobal(i, l) /\ DoneGlobal(j, m)
      BY <1>2, <3>1 DEF GlobalsAgree
    <3>2. CASE j = k /\ objects[j].symbols[m] = y /\ DoneGlobal(i, l)
      BY <2>3, <2>4, <3>2
    <3>3. CASE i = k /\ objects[i].symbols[l] = y /\ DoneGlobal(j, m)
      <4>1. y.kind = "global"
        BY <2>3, <3>3
      <4>2. MovedOf(j, objects[j].symbols[m]) = MovedOf(k, y)
        BY <2>4, <3>3, <4>1
      <4>3. QED
        BY <3>3, <4>2
    <3>4. CASE i = k /\ objects[i].symbols[l] = y /\ j = k /\ objects[j].symbols[m] = y
      BY <3>4
    <3>5. QED
      BY <2>3, <3>1, <3>2, <3>3, <3>4
  <2>6. ASSUME NEW j \in DOMAIN objects, NEW m \in DOMAIN objects[j].symbols, DoneGlobal(j, m)',
               NEW z, z = objects[j].symbols[m]
        PROVE  /\ z.name \in DOMAIN table' /\ table'[z.name].kind # "undefined"
               /\ table'[z.name].kind = "global" => table'[z.name] = MovedOf(j, z)
    <3>0. z = objects[j].symbols[m]
      BY <2>6
    <3>1. CASE j = k /\ m = n /\ z = y
      <4>1. Enters(y)
        BY <2>3, <2>6, <3>1 DEF Enters
      <4>2. table'[y.name] = MovedOf(k, y) /\ y.name \in DOMAIN table'
        BY <1>4, <4>1, MovedIsMovedOf DEF Put
      <4>3. y.kind = "global"
        BY <2>3, <2>6, <3>1
      <4>4. QED
        BY <3>1, <4>2, <4>3 DEF MovedOf
    <3>2. CASE DoneGlobal(j, m)
      <4>1. /\ z.name \in DOMAIN table /\ table[z.name].kind # "undefined"
            /\ table[z.name].kind = "global" => table[z.name] = MovedOf(j, z)
        BY <1>2, <3>0, <3>2 DEF GlobalsStay
      <4>2. CASE y.name # z.name \/ ~Enters(y)
        <5>1. z.name \in DOMAIN table' /\ table'[z.name] = table[z.name]
          BY <1>4, <4>1, <4>2 DEF Put
        <5>2. QED
          BY <4>1, <5>1
      <4>3. CASE y.name = z.name /\ Enters(y)
        <5>1. table'[z.name] = MovedOf(k, y) /\ z.name \in DOMAIN table'
          BY <1>4, <4>3, MovedIsMovedOf DEF Put
        <5>2. y.kind # "undefined" /\ table'[z.name].kind = y.kind
          BY <4>1, <4>3, <5>1 DEF Enters, MovedOf
        <5>3. y.kind = "global" => MovedOf(j, z) = MovedOf(k, y)
          BY <2>4, <3>0, <3>2, <4>3
        <5>4. QED
          BY <5>1, <5>2, <5>3
      <4>4. QED
        BY <4>2, <4>3
    <3>3. QED
      BY <2>3, <2>6, <3>1, <3>2
  <2>7. GlobalsStay'
    BY <1>1, <2>1, <2>6 DEF GlobalsStay
  <2>8. QED
    BY <2>5, <2>7 DEF GlobalsOK
<1>5. QED
  BY <1>1, <1>3, <1>4

LEMMA FirstSymbol ==
  ASSUME IInv, phase' = "symbols", k' = 1, n' = 1,
         NEW j \in DOMAIN objects, NEW m \in DOMAIN objects[j].symbols
  PROVE  ~SymbolDone(j, m)'
<1>1. j \in Nat \ {0} /\ objects[j] \in Pool
  BY DEF IInv, InputsOK
<1>2. PICK l \in Nat : DOMAIN objects[j].symbols = 1 .. l
  BY <1>1, ObjectTables
<1>3. QED
  BY <1>1, <1>2 DEF SymbolDone, Entering

LEMMA AdvanceGlobals ==
  ASSUME IInv, NamesOK, GlobalsOK, NextSymbols
  PROVE  GlobalsOK'
<1>1. /\ phase = "symbols" /\ UNCHANGED <<objects, sections, offsets, table>>
      /\ \/ k \in DOMAIN objects /\ n \notin DOMAIN objects[k].symbols /\ k' = k + 1 /\ n' = 1 /\ phase' = "symbols"
         \/ k \notin DOMAIN objects /\ phase' = "iat"
  BY DEF NextSymbols, inputs
<1>2. /\ k \in Nat \ {0} /\ n \in Nat \ {0} /\ objects \in Seq(Pool)
      /\ \A i \in DOMAIN objects : i \in Nat /\ objects[i] \in Pool
  BY DEF IInv, InputsOK, NamesOK
<1>3. ASSUME NEW i \in DOMAIN objects, NEW m \in DOMAIN objects[i].symbols, SymbolDone(i, m)'
      PROVE  SymbolDone(i, m)
  <2>1. PICK l \in Nat : DOMAIN objects[i].symbols = 1 .. l
    BY <1>2, ObjectTables
  <2>2. i \in Nat /\ m \in 1 .. l /\ (i = k => m < n \/ n \in DOMAIN objects[k].symbols)
    BY <1>2, <2>1
  <2>3. CASE k \in DOMAIN objects
    <3>1. phase = "symbols" /\ phase' = "symbols" /\ k' = k + 1 /\ n' = 1
          /\ (i = k => m < n)
      BY <1>1, <2>2, <2>3
    <3>2. i \in Nat /\ m \in Nat \ {0} /\ k \in Nat /\ n \in Nat
      BY <1>2, <2>2
    <3>3. i < k' \/ (i = k' /\ m < n')
      BY <1>3, <3>1 DEF SymbolDone, Entering
    <3>4. QED
      BY <3>1, <3>2, <3>3 DEF SymbolDone, Entering
  <2>4. CASE k \notin DOMAIN objects
    <3>1. i < k
      BY <1>2, <2>4
    <3>2. QED
      BY <1>1, <3>1 DEF SymbolDone, Entering
  <2>5. QED
    BY <2>3, <2>4
<1>4. GlobalsStay' /\ GlobalsAgree'
  BY <1>1, <1>3, GlobalsKept DEF GlobalsOK
<1>5. QED
  BY <1>4 DEF GlobalsOK

LEMMA NextGlobals == IInv /\ NamesOK /\ GlobalsOK /\ [Next]_vars => GlobalsOK'
<1> SUFFICES ASSUME IInv, NamesOK, GlobalsOK, [Next]_vars PROVE GlobalsOK'
  OBVIOUS
<1>1. CASE NextSections
  <2>1. /\ UNCHANGED <<objects, sections, offsets>> /\ phase' \in {"sections", "symbols"}
        /\ phase' = "symbols" => k' = 1 /\ n' = 1
    BY <1>1 DEF NextSections, inputs
  <2>2. ASSUME phase' = "symbols", NEW j \in DOMAIN objects, NEW m \in DOMAIN objects[j].symbols
        PROVE  ~DoneGlobal(j, m)'
    BY <2>1, <2>2, FirstSymbol DEF DoneGlobal
  <2>3. phase' = "symbols" => GlobalsStay' /\ GlobalsAgree'
    BY <2>1, <2>2 DEF GlobalsStay, GlobalsAgree
  <2>4. QED
    BY <2>1, <2>3 DEF GlobalsOK
<1>2. CASE ReserveIat \/ PlaceSection \/ Bind \/ Apply
  <2>1. /\ UNCHANGED <<objects, offsets, table>> /\ phase \in {"iat", "layout", "apply"}
        /\ phase' \in {"layout", "apply", "linked", "undefined", "range"}
    BY <1>2 DEF ReserveIat, PlaceSection, Bind, Apply, inputs
  <2>2. GlobalsStay /\ GlobalsAgree
    BY <2>1 DEF GlobalsOK
  <2>3. /\ \A j, y : MovedOf(j, y)' = MovedOf(j, y)
        /\ \A j, m : DoneGlobal(j, m)' = DoneGlobal(j, m)
    BY <2>1 DEF MovedOf, DoneGlobal, SymbolDone, Entering
  <2>4. GlobalsStay' /\ GlobalsAgree'
    BY <2>1, <2>2, <2>3 DEF GlobalsStay, GlobalsAgree
  <2>5. QED
    BY <2>4 DEF GlobalsOK
<1>3. ASSUME NEW o \in Pool, AddObject(o) PROVE GlobalsOK'
  BY <1>3 DEF AddObject, GlobalsOK
<1>4. ASSUME NEW b \in Bases, Relink(b) PROVE GlobalsOK'
  BY <1>4 DEF Relink, GlobalsOK
<1>5. CASE MergeSection
  BY <1>5 DEF MergeSection, GlobalsOK
<1>6. CASE UNCHANGED vars
  <2>1. UNCHANGED <<objects, sections, offsets, table, phase, k, n>>
    BY <1>6 DEF vars, inputs
  <2>2. phase \notin {"idle", "sections"} => GlobalsStay' /\ GlobalsAgree'
    BY <2>1, GlobalsKept DEF GlobalsOK, SymbolDone, Entering
  <2>3. QED
    BY <2>1, <2>2 DEF GlobalsOK
<1>7. QED
  BY <1>1, <1>2, <1>3, <1>4, <1>5, <1>6, SymbolGlobals, AdvanceGlobals DEF Next, Link

LEMMA NamesInvariance == Spec => [](IInv /\ NamesOK)
  BY InitNames, NextNames, Invariance, PTL DEF Spec

(* _merge_symbols and SymbolTable.define: no link goes on with two         *)
(* different globals of one name, in whatever order the objects come, and  *)
(* whatever locals, imports and absolute names stand between them.         *)
THEOREM OneGlobal == Spec => []GlobalsUnique
<1>1. IInv /\ NamesOK /\ GlobalsOK => GlobalsUnique
  <2> SUFFICES ASSUME IInv, NamesOK, GlobalsOK, Defined,
                      NEW i \in DOMAIN objects, NEW j \in DOMAIN objects,
                      NEW y \in Globals(i), NEW z \in Globals(j), y.name = z.name
               PROVE  Equal(i, y, j, z)
    BY DEF GlobalsUnique
  <2>1. PICK l \in DOMAIN objects[i].symbols : y = objects[i].symbols[l]
    BY DEF Globals, SymbolsOf
  <2>2. PICK m \in DOMAIN objects[j].symbols : z = objects[j].symbols[m]
    BY DEF Globals, SymbolsOf
  <2>3. y.kind = "global" /\ z.kind = "global"
    BY DEF Globals
  <2>4. phase \notin {"idle", "sections"} /\ DoneGlobal(i, l) /\ DoneGlobal(j, m)
    BY <2>1, <2>2, <2>3 DEF Defined, DoneGlobal, SymbolDone, Entering
  <2>5. MovedOf(i, y) = MovedOf(j, z)
    BY <2>1, <2>2, <2>4 DEF GlobalsOK, GlobalsAgree
  <2>6. QED
    BY <2>3, <2>5 DEF MovedOf, Equal
<1>2. Spec => []GlobalsOK
  BY InitGlobals, NextGlobals, NamesInvariance, PTL DEF Spec
<1>3. QED
  BY <1>1, <1>2, NamesInvariance, PTL

(***************************************************************************)
(* The order of the parts.                                                 *)
(***************************************************************************)
LEMMA MergeInOrder ==
  ASSUME IInv, NamesOK, PartsInOrder, MergeSection
  PROVE  PartsInOrder'
<1> DEFINE s == objects[k].sections[n]
           dst == IF s.name \in DOMAIN sections THEN sections[s.name] ELSE Fresh(s)
           start == Start(dst, s)
           key == <<k, s.name>>
<1>1. /\ phase = "sections" /\ k \in DOMAIN objects /\ n \in DOMAIN objects[k].sections
      /\ offsets' = Put(offsets, key, start) /\ UNCHANGED objects
  BY DEF MergeSection, inputs
<1>2. objects \in Seq(Pool) /\ objects[k] \in Pool /\ k \in Nat
  BY <1>1 DEF IInv, InputsOK
<1>3. s.align \in Nat \ {0} /\ s.raw \in Nat
  BY <1>1, <1>2, Parts
<1>4. dst.raw \in Nat /\ (s.name \in DOMAIN sections => dst = sections[s.name])
  BY <1>3 DEF IInv, SectionsOK, Fresh
<1> HIDE DEF dst
<1>5. start \in Nat /\ dst.raw <= start
  BY <1>3, <1>4, RoundsUp DEF Start
<1> HIDE DEF start, s
<1>6. /\ DOMAIN offsets' = DOMAIN offsets \union {key} /\ offsets'[key] = start
      /\ \A c \in DOMAIN offsets \ {key} : offsets'[c] = offsets[c]
  BY <1>1 DEF Put
<1>7. \A c : Contribution(c)' = Contribution(c)
  BY <1>1 DEF Contribution
<1>8. ASSUME NEW c \in DOMAIN offsets \ {key}
      PROVE  c[1] <= k /\ c[1] \in Nat /\ (c[2] = key[2] => offsets[c] + Contribution(c).raw <= start)
  <2>1. /\ IsPart(c) /\ c[2] \in DOMAIN sections /\ offsets[c] \in Nat
        /\ offsets[c] + Contribution(c).raw <= sections[c[2]].raw
    BY DEF IInv, PartsOK
  <2>2. Contribution(c).raw \in Nat
    BY <1>2, <2>1, PartType
  <2>3. PICK m \in DOMAIN objects[c[1]].sections : objects[c[1]].sections[m].name = c[2]
    BY <2>1 DEF IsPart
  <2>4. c = <<c[1], objects[c[1]].sections[m].name>> /\ c[1] \in DOMAIN objects
    BY <2>1, <2>3 DEF IsPart
  <2>5. Assembled
    BY <1>1 DEF NamesOK
  <2>6. SectionDone(c[1], m)
    BY <2>4, <2>5 DEF Assembled
  <2>7. c[1] < k \/ c[1] = k
    BY <1>1, <2>6 DEF SectionDone
  <2>8. c[2] = key[2] => sections[c[2]].raw = dst.raw
    BY <1>4, <2>1
  <2>9. c[1] \in Nat
    BY <1>2, <2>4
  <2>10. QED
    BY <1>2, <1>4, <1>5, <2>1, <2>2, <2>7, <2>8, <2>9
<1>9. ASSUME NEW c \in DOMAIN offsets', NEW d \in DOMAIN offsets', c[2] = d[2], c[1] < d[1]
      PROVE  offsets'[c] + Contribution(c).raw <= offsets'[d]
  <2>1. c # d
    <3> SUFFICES ASSUME c = d PROVE FALSE
      OBVIOUS
    <3>1. c[1] \in Nat
      BY <1>2, <1>6, <1>8
    <3>2. QED
      BY <1>9, <3>1
  <2>2. CASE d = key
    BY <1>6, <1>8, <1>9, <2>1, <2>2
  <2>3. CASE c = key
    <3>1. d[1] <= k /\ d[1] \in Nat
      BY <1>6, <1>8, <2>1, <2>3
    <3>2. QED
      BY <1>2, <1>9, <2>3, <3>1
  <2>4. CASE c \in DOMAIN offsets \ {key} /\ d \in DOMAIN offsets \ {key}
    BY <1>1, <1>6, <1>9, <2>4 DEF PartsInOrder
  <2>5. QED
    BY <1>6, <2>2, <2>3, <2>4
<1>10. QED
  BY <1>7, <1>9 DEF PartsInOrder

LEMMA InitInOrder == Init => PartsInOrder
  BY DEF Init, PartsInOrder

LEMMA NextInOrder == IInv /\ NamesOK /\ PartsInOrder /\ [Next]_vars => PartsInOrder'
<1> SUFFICES ASSUME IInv, NamesOK, PartsInOrder, [Next]_vars PROVE PartsInOrder'
  OBVIOUS
<1>1. ASSUME NEW o \in Pool, AddObject(o) PROVE PartsInOrder'
  <2>1. objects \in Seq(Pool) /\ objects' = Append(objects, o) /\ UNCHANGED offsets
    BY <1>1 DEF AddObject, IInv, InputsOK
  <2>2. \A c \in DOMAIN offsets : Contribution(c)' = Contribution(c)
    BY <2>1, PartKept DEF IInv, PartsOK
  <2>3. QED
    BY <2>1, <2>2 DEF PartsInOrder
<1>2. ASSUME NEW b \in Bases, Relink(b) PROVE PartsInOrder'
  <2>1. DOMAIN offsets' = {}
    BY <1>2 DEF Relink
  <2>2. QED
    BY <2>1 DEF PartsInOrder
<1>3. CASE NextSections \/ MergeSymbol \/ NextSymbols \/ ReserveIat \/ PlaceSection \/ Bind \/ Apply
  <2>1. UNCHANGED <<objects, offsets>> /\ phase # "idle"
    BY <1>3 DEF NextSections, MergeSymbol, NextSymbols, ReserveIat, PlaceSection, Bind, Apply, inputs
  <2>2. \A c : Contribution(c)' = Contribution(c)
    BY <2>1 DEF Contribution
  <2>3. QED
    BY <2>1, <2>2 DEF PartsInOrder
<1>4. CASE UNCHANGED vars
  <2>1. UNCHANGED <<objects, offsets, phase>>
    BY <1>4 DEF vars, inputs
  <2>2. \A c : Contribution(c)' = Contribution(c)
    BY <2>1 DEF Contribution
  <2>3. QED
    BY <2>1, <2>2 DEF PartsInOrder
<1>5. QED
  BY <1>1, <1>2, <1>3, <1>4, MergeInOrder DEF Next, Link

(* _merge_sections: the bytes that objects put into one section do not     *)
(* overlap, they follow the order of the objects, and each part is aligned *)
(* as its object asked.  (Of zero-filled tails it is not so.)              *)
THEOREM Separation == Spec => []BytesApart
<1>1. IInv /\ PartsInOrder => BytesApart
  BY DEF IInv, PartsOK, PartsInOrder, BytesApart
<1>2. Spec => []PartsInOrder
  BY InitInOrder, NextInOrder, NamesInvariance, PTL DEF Spec
<1>3. QED
  BY <1>1, <1>2, Invariance, PTL

(***************************************************************************)
(* References: what a field holds and what it leads to.                    *)
(***************************************************************************)
LEMMA InitLinked == Init => LinkedOK
  BY DEF Init, LinkedOK

(* _reserve_iat: every import in the table gets a slot.                    *)
LEMMA ImportKnown ==
  ASSUME IInv, NamesOK, phase \notin {"idle", "sections"},
         NEW a \in DOMAIN table, table[a].kind = "import"
  PROVE  \E p \in Imports : ImportOrder[p] = a
<1>1. Originates(a)
  BY DEF NamesOK
<1>2. PICK j \in DOMAIN objects : \E y \in SymbolsOf(j) : y.name = a /\ table[a] = MovedOf(j, y)
  <2>1. table[a] # AbsoluteEntry(a)
    BY DEF AbsoluteEntry
  <2>2. QED
    BY <1>1, <2>1 DEF Originates
<1>3. PICK y \in SymbolsOf(j) : y.name = a /\ table[a] = MovedOf(j, y)
  BY <1>2
<1>4. y.kind = "import" /\ objects[j] \in Pool
  BY <1>3 DEF MovedOf, IInv, InputsOK
<1>5. \E p \in DOMAIN ImportOrder : ImportOrder[p] = y.name
  BY <1>4, LinkerAssumption DEF Ordered, SymbolsOf
<1>6. QED
  BY <1>3, <1>5 DEF Imports

LEMMA NextLinked == IInv /\ NamesOK /\ LinkedOK /\ [Next]_vars => LinkedOK'
<1> SUFFICES ASSUME IInv, NamesOK, LinkedOK, [Next]_vars PROVE LinkedOK'
  OBVIOUS
<1>1. CASE ReserveIat
  <2>1. /\ phase = "iat" /\ phase' = "layout" /\ UNCHANGED table
        /\ Imports # {} => DOMAIN slots' = {ImportOrder[i] : i \in Imports}
                          /\ ".idata" \in DOMAIN sections'
    BY <1>1 DEF ReserveIat, Put
  <2>2. ASSUME NEW a \in DOMAIN table, table[a].kind = "import"
        PROVE  a \in DOMAIN slots' /\ ".idata" \in DOMAIN sections'
    BY <2>1, <2>2, ImportKnown
  <2>3. QED
    BY <2>1, <2>2 DEF LinkedOK
<1>2. CASE PlaceSection
  BY <1>2 DEF PlaceSection, LinkedOK
<1>3. CASE Bind
  <2>1. /\ phase = "layout" /\ phase' \in {"apply", "undefined"} /\ Unplaced = {}
        /\ phase' = "apply" => Missing = {}
        /\ UNCHANGED <<sections, table, slots, layout>>
    BY <1>3 DEF Bind
  <2>2. Unplaced' = Unplaced
    BY <2>1 DEF Unplaced
  <2>3. Missing' = Missing
    <3>1. References' = References /\ DOMAIN addresses' = DOMAIN addresses
      BY <2>1 DEF References, addresses
    <3>2. QED
      BY <3>1 DEF Missing
  <2>4. QED
    BY <2>1, <2>2, <2>3 DEF LinkedOK
<1>4. CASE Apply
  <2>1. /\ phase = "apply" /\ phase' \in {"linked", "range"}
        /\ phase' = "linked" => result'.contents = Relocated
        /\ UNCHANGED <<image_base, sections, table, slots, layout>>
    BY <1>4 DEF Apply, inputs
  <2>2. Unplaced' = Unplaced
    BY <2>1 DEF Unplaced
  <2>3. addresses' = addresses
    BY <2>1 DEF addresses, Address, SectionVA, Placed
  <2>4. Missing' = Missing
    <3>1. References' = References
      BY <2>1 DEF References
    <3>2. QED
      BY <2>3, <3>1 DEF Missing
  <2>5. Relocated' = Relocated
    <3>1. Fields' = Fields
      BY <2>1 DEF Fields
    <3>2. \A s, r : Value(s, r)' = Value(s, r)
      BY <2>1, <2>3 DEF Value, SectionVA, Placed
    <3>3. QED
      BY <3>1, <3>2 DEF Relocated
  <2>6. QED
    BY <2>1, <2>2, <2>4, <2>5 DEF LinkedOK
<1>5. CASE NextSections \/ MergeSection \/ MergeSymbol \/ NextSymbols
  BY <1>5 DEF NextSections, MergeSection, MergeSymbol, NextSymbols, LinkedOK
<1>6. ASSUME NEW o \in Pool, AddObject(o) PROVE LinkedOK'
  BY <1>6 DEF AddObject, LinkedOK
<1>7. ASSUME NEW b \in Bases, Relink(b) PROVE LinkedOK'
  BY <1>7 DEF Relink, LinkedOK
<1>8. CASE UNCHANGED vars
  <2>1. UNCHANGED <<image_base, phase, sections, table, slots, layout, result>>
    BY <1>8 DEF vars, inputs
  <2>2. Unplaced' = Unplaced
    BY <2>1 DEF Unplaced
  <2>3. addresses' = addresses
    BY <2>1 DEF addresses, Address, SectionVA, Placed
  <2>4. Missing' = Missing
    <3>1. References' = References
      BY <2>1 DEF References
    <3>2. QED
      BY <2>3, <3>1 DEF Missing
  <2>5. Relocated' = Relocated
    <3>1. Fields' = Fields
      BY <2>1 DEF Fields
    <3>2. \A s, r : Value(s, r)' = Value(s, r)
      BY <2>1, <2>3 DEF Value, SectionVA, Placed
    <3>3. QED
      BY <3>1, <3>2 DEF Relocated
  <2>6. QED
    BY <2>1, <2>2, <2>4, <2>5 DEF LinkedOK
<1>9. QED
  BY <1>1, <1>2, <1>3, <1>4, <1>5, <1>6, <1>7, <1>8 DEF Next, Link

(* A linked section has its place.                                         *)
LEMMA AllPlaced ==
  ASSUME IInv, NamesOK, LinkedOK, phase \in {"apply", "linked"}, NEW s \in DOMAIN sections
  PROVE  Placed(s) \in DOMAIN layout /\ layout[Placed(s)].name = s /\ SectionVA(s) \in Int
<1>1. \E p \in DOMAIN layout : layout[p].name = s
  BY DEF LinkedOK, Unplaced, NamesOK, SectionsOrdered
<1>2. Placed(s) \in DOMAIN layout /\ layout[Placed(s)].name = s
  BY <1>1 DEF Placed
<1>3. layout[Placed(s)] \in [name : DOMAIN sections, rva : Nat, file : Nat]
  BY <1>2, ElementOf DEF IInv, LayoutOK
<1>4. image_base \in Nat
  BY LinkerAssumption DEF IInv, InputsOK
<1>5. QED
  BY <1>2, <1>3, <1>4 DEF SectionVA

LEMMA SymbolTyped ==
  ASSUME IInv, NEW j \in DOMAIN objects, NEW y \in SymbolsOf(j)
  PROVE  /\ y \in ObjectSymbols
         /\ y.kind \in {"local", "global"} =>
              \E m \in DOMAIN objects[j].sections : objects[j].sections[m].name = y.sec
<1>1. objects[j] \in Pool
  BY DEF IInv, InputsOK
<1>2. PICK m \in DOMAIN objects[j].symbols : y = objects[j].symbols[m]
  BY DEF SymbolsOf
<1>3. QED
  BY <1>1, <1>2, ObjectTables, LinkerAssumption DEF IsObject

(* _bind_addresses: an entry is bound to what it was entered for.          *)
LEMMA AddressMeans ==
  ASSUME IInv, SlotsOK, NamesOK, LinkedOK, phase \in {"apply", "linked"},
         NEW j \in DOMAIN objects, NEW y \in SymbolsOf(j), y.kind # "undefined",
         y.name \in DOMAIN table, table[y.name] = MovedOf(j, y)
  PROVE  Address(y.name) = Meaning(<<j, y>>) /\ Address(y.name) \in Int
<1>1. y \in ObjectSymbols /\ y.kind \in SymbolKinds /\ y.val \in Int
  BY SymbolTyped DEF ObjectSymbols
<1>2. table[y.name].kind = y.kind /\ table[y.name].sec = y.sec
  BY DEF MovedOf
<1>3. CASE y.kind = "absolute"
  BY <1>1, <1>2, <1>3 DEF Address, Meaning, MovedOf
<1>4. CASE y.kind = "import"
  <2>1. y.name \in DOMAIN slots /\ ".idata" \in DOMAIN sections
    BY <1>2, <1>4 DEF LinkedOK
  <2>2. slots[y.name] \in Int /\ SectionVA(".idata") \in Int
    BY <2>1, AllPlaced DEF SlotsOK
  <2>3. QED
    BY <1>2, <1>4, <2>2 DEF Address, Meaning
<1>5. CASE y.kind \in {"local", "global"}
  <2>1. <<j, y.sec>> \in DOMAIN offsets
    BY <1>5, SymbolTyped DEF NamesOK, Assembled, SectionDone
  <2>2. offsets[<<j, y.sec>>] \in Int /\ y.sec \in DOMAIN sections
    BY <2>1 DEF IInv, PartsOK
  <2>3. SectionVA(y.sec) \in Int
    BY <2>2, AllPlaced
  <2>4. Address(y.name) = SectionVA(y.sec) + (y.val + offsets[<<j, y.sec>>])
    BY <1>2, <1>5 DEF Address, MovedOf
  <2>5. Meaning(<<j, y>>) = SectionVA(y.sec) + offsets[<<j, y.sec>>] + y.val
    BY <1>5 DEF Meaning
  <2>6. QED
    BY <1>1, <2>2, <2>3, <2>4, <2>5
<1>6. QED
  BY <1>1, <1>3, <1>4, <1>5 DEF SymbolKinds

(* Relocation t in section m of object i is where a field is carried from. *)
From(s, r, i, m, t) ==
  /\ i \in DOMAIN objects /\ objects[i] \in Pool
  /\ m \in DOMAIN objects[i].sections /\ objects[i].sections[m].name = s
  /\ <<i, s>> \in DOMAIN offsets /\ Contribution(<<i, s>>) = objects[i].sections[m]
  /\ t \in objects[i].sections[m].relocs /\ t \in Relocations
  /\ t.off < objects[i].sections[m].raw
  /\ r = Carried(i, s, t)

LEMMA FieldFrom ==
  ASSUME IInv, NamesOK, phase # "idle", NEW s \in DOMAIN sections, NEW r \in sections[s].relocs
  PROVE  \E i, m, t : From(s, r, i, m, t)
<1>1. PICK i \in DOMAIN objects : \E m \in DOMAIN objects[i].sections :
        /\ objects[i].sections[m].name = s /\ <<i, s>> \in DOMAIN offsets
        /\ \E t \in objects[i].sections[m].relocs : r = Carried(i, s, t)
  BY DEF NamesOK, FieldsCarried
<1>2. PICK m \in DOMAIN objects[i].sections :
        /\ objects[i].sections[m].name = s /\ <<i, s>> \in DOMAIN offsets
        /\ \E t \in objects[i].sections[m].relocs : r = Carried(i, s, t)
  BY <1>1
<1>3. PICK t \in objects[i].sections[m].relocs : r = Carried(i, s, t)
  BY <1>2
<1>4. objects \in Seq(Pool) /\ objects[i] \in Pool
  BY DEF IInv, InputsOK
<1>5. objects[i].sections[m] \in ObjectSections
  BY <1>4, ObjectTables
<1>6. t \in Relocations
  BY <1>5 DEF ObjectSections
<1>7. t.off < objects[i].sections[m].raw
  BY <1>4, LinkerAssumption DEF IsObject
<1>8. Contribution(<<i, s>>) = objects[i].sections[m]
  BY <1>2, <1>4, TheContribution
<1>9. From(s, r, i, m, t)
  BY <1>2, <1>3, <1>4, <1>6, <1>7, <1>8 DEF From
<1>10. QED
  BY <1>9

LEMMA SiteAlone ==
  ASSUME FieldsAlone, IInv, NamesOK, phase # "idle", NEW s \in DOMAIN sections,
         NEW r \in sections[s].relocs, NEW u \in sections[s].relocs, r.off = u.off
  PROVE  r = u
<1>1. PICK i, m, t : From(s, r, i, m, t)
  BY FieldFrom
<1>2. PICK j, l, w : From(s, u, j, l, w)
  BY FieldFrom
<1>3. /\ t.off \in Nat /\ w.off \in Nat
      /\ objects[i].sections[m].raw \in Nat /\ objects[j].sections[l].raw \in Nat
  BY <1>1, <1>2, Parts DEF From, Relocations
<1>4. /\ offsets[<<i, s>>] \in Nat /\ offsets[<<j, s>>] \in Nat
      /\ i # j => Apart(offsets[<<i, s>>], objects[i].sections[m].raw,
                        offsets[<<j, s>>], objects[j].sections[l].raw)
  BY <1>1, <1>2 DEF From, IInv, PartsOK
<1>5. t.off + offsets[<<i, s>>] = w.off + offsets[<<j, s>>]
  BY <1>1, <1>2 DEF From, Carried
<1>6. t.off < objects[i].sections[m].raw /\ w.off < objects[j].sections[l].raw
  BY <1>1, <1>2 DEF From
<1>7. i = j
  BY <1>3, <1>4, <1>5, <1>6 DEF Apart
<1>8. m = l
  BY <1>1, <1>2, <1>7, ObjectTables DEF From
<1>9. t = w
  <2>1. t.off = w.off
    BY <1>3, <1>4, <1>5, <1>7
  <2>2. QED
    BY <1>1, <1>2, <1>7, <1>8, <2>1 DEF From, FieldsAlone
<1>10. QED
  BY <1>1, <1>2, <1>7, <1>9 DEF From

(* relocated: a field holds the value of its own relocation.               *)
LEMMA FieldHolds ==
  ASSUME FieldsAlone, IInv, NamesOK, LinkedOK, phase = "linked",
         NEW s \in DOMAIN sections, NEW r \in sections[s].relocs
  PROVE  Field(s, r) = Value(s, r) /\ r.from[1] \in DOMAIN objects
<1>1. PICK i, m, t : From(s, r, i, m, t)
  BY FieldFrom
<1>2. /\ r.from[1] = i /\ r.from[3] = t.off /\ r.off = t.off + offsets[<<i, s>>]
      /\ i \in DOMAIN objects
  BY <1>1 DEF From, Carried
<1>3. t.off \in Nat /\ offsets[<<i, s>>] \in Nat
  BY <1>1 DEF From, Relocations, IInv, PartsOK
<1>4. offsets[<<r.from[1], s>>] + r.from[3] = r.off
  BY <1>2, <1>3
<1> DEFINE f0 == <<s, r>>
<1>5. f0 \in Fields /\ f0[1] = s /\ f0[2] = r
  BY DEF Fields
<1>6. ASSUME NEW f \in Fields, f[1] = s, f[2].off = r.off PROVE f = f0
  <2>1. PICK x \in DOMAIN sections : f \in {<<x, u>> : u \in sections[x].relocs}
    BY DEF Fields
  <2>2. PICK u \in sections[x].relocs : f = <<x, u>>
    BY <2>1
  <2>3. x = s /\ u.off = r.off
    BY <1>6, <2>2
  <2>4. u = r
    BY <2>2, <2>3, SiteAlone
  <2>5. QED
    BY <2>2, <2>3, <2>4
<1>7. <<s, r.off>> \in {<<f[1], f[2].off>> : f \in Fields}
  BY <1>5
<1>8. Relocated[<<s, r.off>>] =
        LET f == CHOOSE f \in Fields : f[1] = s /\ f[2].off = r.off
        IN  Value(f[1], f[2])
  BY <1>7 DEF Relocated
<1>9. (CHOOSE f \in Fields : f[1] = s /\ f[2].off = r.off) = f0
  BY <1>5, <1>6
<1>10. Relocated[<<s, r.off>>] = Value(s, r)
  BY <1>5, <1>8, <1>9
<1>11. QED
  BY <1>2, <1>4, <1>10 DEF Field, LinkedOK

(* What a field of the program reads is where its symbol is bound.         *)
LEMMA ReadsAddress ==
  ASSUME FieldsAlone, IInv, NamesOK, LinkedOK, phase = "linked",
         NEW s \in DOMAIN sections, NEW r \in sections[s].relocs,
         r.kind \notin {"SECREL32", "SECTION16"}, Address(r.sym) \in Int
  PROVE  r.sym \in DOMAIN addresses /\ Reads(s, r) - r.add = Address(r.sym)
<1>1. r.sym \in DOMAIN addresses
  <2>1. r \in References
    BY DEF References
  <2>2. QED
    BY <2>1 DEF LinkedOK, Missing
<1>2. addresses[r.sym] = Address(r.sym)
  BY <1>1 DEF addresses
<1>3. Field(s, r) = Value(s, r)
  BY FieldHolds
<1>4. r.kind \in Kinds /\ r.add \in Int /\ r.adj \in Int /\ r.off \in Int
  <2>1. PICK i, m, t : From(s, r, i, m, t)
    BY FieldFrom
  <2>2. offsets[<<i, s>>] \in Nat
    BY <2>1 DEF From, IInv, PartsOK
  <2>3. QED
    BY <2>1, <2>2 DEF From, Carried, Relocations
<1>5. SectionVA(s) \in Int /\ image_base \in Int /\ Width(r.kind) \in Int
  BY AllPlaced, LinkerAssumption DEF IInv, InputsOK, Width
<1> DEFINE a == Address(r.sym)
<1>6. a \in Int
  OBVIOUS
<1> HIDE DEF a
<1>7. addresses[r.sym] = a
  BY <1>2 DEF a
<1>8. Reads(s, r) - r.add = a
  <2>1. CASE r.kind = "RVA32"
    <3>1. Value(s, r) = a + r.add - image_base
      BY <1>4, <1>5, <1>6, <1>7, <2>1 DEF Value
    <3>2. Reads(s, r) = Field(s, r) + image_base
      BY <2>1 DEF Reads
    <3>3. QED
      BY <1>3, <1>4, <1>5, <1>6, <3>1, <3>2
  <2>2. CASE r.kind \in {"REL32", "REL8"}
    <3>1. Value(s, r) = a + r.add - (SectionVA(s) + r.off + Width(r.kind) + r.adj)
      BY <1>4, <1>5, <1>6, <1>7, <2>2 DEF Value
    <3>2. Reads(s, r) = Field(s, r) + SectionVA(s) + r.off + Width(r.kind) + r.adj
      BY <2>2 DEF Reads
    <3>3. QED
      BY <1>3, <1>4, <1>5, <1>6, <3>1, <3>2
  <2>3. CASE r.kind \in {"ABS64", "ABS32"}
    <3>1. Value(s, r) = a + r.add
      BY <1>7, <2>3 DEF Value
    <3>2. Reads(s, r) = Field(s, r)
      BY <2>3 DEF Reads
    <3>3. QED
      BY <1>3, <1>4, <1>6, <3>1, <3>2
  <2>4. QED
    BY <1>4, <2>1, <2>2, <2>3 DEF Kinds
<1>9. QED
  BY <1>1, <1>8 DEF a

(* What one field leads to, once everything is placed.                     *)
LEMMA Leads ==
  ASSUME FieldsAlone, IInv, SlotsOK, NamesOK, LinkedOK, phase = "linked",
         NEW s \in DOMAIN sections, NEW r \in sections[s].relocs, r.kind \in AddressKinds
  PROVE  Reads(s, r) - r.add \in Places(r.sym)
<1>1. r.sym \in DOMAIN table /\ table[r.sym].kind # "undefined"
  <2>1. r \in References
    BY DEF References
  <2>2. r.sym \in DOMAIN addresses
    BY <2>1 DEF LinkedOK, Missing
  <2>3. QED
    BY <2>2 DEF addresses
<1>2. Originates(r.sym)
  BY <1>1 DEF NamesOK
<1>3. r.kind \notin {"SECREL32", "SECTION16"}
  BY DEF AddressKinds
<1>4. CASE /\ r.sym \in DOMAIN Absolutes
           /\ table[r.sym] = AbsoluteEntry(r.sym)
  <2>1. Address(r.sym) = Absolutes[r.sym]
    <3>1. table[r.sym].kind = "absolute" /\ table[r.sym].val = Absolutes[r.sym]
      BY <1>4 DEF AbsoluteEntry
    <3>2. QED
      BY <3>1 DEF Address
  <2>2. Address(r.sym) \in Int
    BY <1>4, <2>1, LinkerAssumption
  <2>3. Reads(s, r) - r.add = Absolutes[r.sym]
    BY <1>3, <2>1, <2>2, ReadsAddress
  <2>4. QED
    BY <1>4, <2>3 DEF Places
<1>5. ASSUME NEW j \in DOMAIN objects, NEW y \in SymbolsOf(j), y.name = r.sym,
             table[r.sym] = MovedOf(j, y)
      PROVE  Reads(s, r) - r.add \in Places(r.sym)
  <2>1. y.kind # "undefined"
    BY <1>1, <1>5 DEF MovedOf
  <2>2. Address(r.sym) = Meaning(<<j, y>>) /\ Address(r.sym) \in Int
    BY <1>1, <1>5, <2>1, AddressMeans
  <2>3. Reads(s, r) - r.add = Meaning(<<j, y>>)
    BY <1>3, <2>2, ReadsAddress
  <2>4. Meaning(<<j, y>>) \in Places(r.sym)
    BY <1>5, <2>1 DEF Places
  <2>5. QED
    BY <2>3, <2>4
<1>6. QED
  BY <1>2, <1>4, <1>5 DEF Originates

LEMMA SlotsInvariance == Spec => []SlotsOK
  BY InitSlots, NextSlots, Invariance, PTL DEF Spec

(* _bind_addresses and relocated: whatever the place of a field, the base  *)
(* and the links before, what the program reads at a field that holds an   *)
(* address is a place that some object or the driver calls by its symbol.  *)
THEOREM ReferencesLead ==
  ASSUME FieldsAlone
  PROVE  Spec => []AddressesHold
<1>1. IInv /\ SlotsOK /\ NamesOK /\ LinkedOK => AddressesHold
  BY Leads DEF AddressesHold
<1>2. Spec => []LinkedOK
  BY InitLinked, NextLinked, NamesInvariance, PTL DEF Spec
<1>3. QED
  BY <1>1, <1>2, SlotsInvariance, NamesInvariance, PTL

(***************************************************************************)
(* The writer.  What sections may be, for its image to be a good one.      *)
(***************************************************************************)
PartsIn(o) == {o.sections[m] : m \in DOMAIN o.sections}
PoolParts == UNION {PartsIn(o) : o \in Pool}

(* The larger of two alignments is a multiple of that of a section: powers *)
(* of two.                                                                 *)
Aligns == {8} \union {s.align : s \in PoolParts}
AlignmentsNest == \A a \in Aligns : Larger(SectionAlign, a) % SectionAlign = 0
AlignmentsSmall == \A a \in Aligns : a <= SectionAlign

(* A zero-filled section has no bytes, from any object, and is no other's. *)
BssEmpty ==
  \A s, t \in PoolParts : s.bss /\ s.name = t.name => t.raw = 0 /\ t.name \notin {".idata", ".reloc"}

(* An object has no section that nothing was written to.                   *)
NoEmpty == \A s \in PoolParts : VirtualSize(s) > 0

(* No section is placed behind .reloc.                                     *)
RelocLast ==
  \A p, q \in DOMAIN SectionOrder : SectionOrder[p] = ".reloc" /\ p < q =>
    /\ SectionOrder[q] \notin {".idata", ".reloc"}
    /\ \A s \in PoolParts : s.name # SectionOrder[q]

(* The linker's room for the headers is enough for all of them.            *)
FirstRva == AlignUp(HeadersSize, SectionAlign)
HeadersFit ==
  \A c \in 0 .. Len(SectionOrder) + 1 :
    AlignUp(HeaderBytes + SectionHeaderBytes * c, FileAlign) <= FirstRva

(***************************************************************************)
(* What the writer reads.                                                  *)
(***************************************************************************)
FiniteOK ==
  /\ IsFiniteSet(DOMAIN sections) /\ IsFiniteSet(result.base_relocs)
  /\ \A s \in DOMAIN sections : IsFiniteSet(sections[s].relocs)

(* Every section is one of the objects' or the linker's own.               *)
KnownOK ==
  \A s \in DOMAIN sections :
    /\ sections[s].align \in Aligns
    /\ s = ".idata" \/ \E t \in PoolParts : t.name = s

BssOK ==
  \A s \in DOMAIN sections :
    /\ sections[s].bss => \E t \in PoolParts : t.bss /\ t.name = s
    /\ \A t \in PoolParts : t.bss /\ t.name = s => sections[s].raw = 0
FilledOK == \A s \in DOMAIN sections : VirtualSize(sections[s]) > 0

SectionsKnown ==
  /\ FiniteOK /\ KnownOK
  /\ BssEmpty => BssOK
  /\ NoEmpty => FilledOK

(* Sections are placed in their order, behind the headers.                 *)
OrderOK ==
  /\ phase = "layout" => FirstRva <= rva
  /\ \A p \in DOMAIN layout : FirstRva <= layout[p].rva
  /\ Len(layout) <= Len(SectionOrder) /\ \A j \in Unplaced : Len(layout) < j

OwnLast == \A p \in DOMAIN layout : layout[p].name = ".reloc" => p = Len(layout) /\ Unplaced = {}

AlignedOK == \A p \in DOMAIN layout : layout[p].rva % SectionAlign = 0

EndOf(p) == layout[p].rva + VirtualSize(sections[layout[p].name])
TiledOK ==
  /\ phase = "layout" => rva % SectionAlign = 0
  /\ phase = "layout" /\ layout # <<>> => rva = AlignUp(EndOf(Len(layout)), SectionAlign)
  /\ \A p \in DOMAIN layout : p + 1 \in DOMAIN layout =>
       layout[p + 1].rva = AlignUp(EndOf(p), SectionAlign)

PlacedKnown ==
  /\ OrderOK
  /\ RelocLast => OwnLast
  /\ AlignmentsNest => AlignedOK
  /\ AlignmentsSmall /\ NoEmpty => TiledOK
(***************************************************************************)
(* Numbers.                                                                *)
(***************************************************************************)
LEMMA AtLeastOnce ==
  ASSUME NEW b \in Nat \ {0}, NEW d \in Nat \ {0}
  PROVE  b * d \in Nat /\ b <= b * d
  OBVIOUS

LEMMA OneRemainder ==
  ASSUME NEW b \in Nat \ {0}, NEW m \in Int, NEW w \in Int
  PROVE  (b * m + w) % b = w % b
<1> DEFINE v == b * m + w
<1>1. v \in Int /\ b * m \in Int
  OBVIOUS
<1>2. PICK q1 \in Int, r1 \in 0 .. b - 1 : v = b * q1 + r1 /\ r1 = v % b
  <2> HIDE DEF v
  <2>1. QED
    BY <1>1, Divided
<1>3. PICK q2 \in Int, r2 \in 0 .. b - 1 : w = b * q2 + r2 /\ r2 = w % b
  BY Divided
<1>4. PICK d \in Int : d = q1 - m - q2
  OBVIOUS
<1>5. b * d = r2 - r1
  <2>1. b * d = b * q1 - b * m - b * q2
    <3>1. b * (q1 - m - q2) = b * q1 - b * m - b * q2
      OBVIOUS
    <3>2. QED
      BY <1>4, <3>1
  <2>2. PICK bm \in Int, bq1 \in Int, bq2 \in Int :
          bm = b * m /\ bq1 = b * q1 /\ bq2 = b * q2
    OBVIOUS
  <2>3. bm + w = bq1 + r1 /\ w = bq2 + r2 /\ b * d = bq1 - bm - bq2
    BY <1>2, <1>3, <2>1, <2>2
  <2>4. QED
    BY <2>2, <2>3
<1>6. d = 0
  <2>1. ASSUME d > 0 PROVE FALSE
    <3>1. b <= b * d
      BY <2>1, AtLeastOnce
    <3>2. QED
      BY <1>5, <3>1
  <2>2. ASSUME d < 0 PROVE FALSE
    <3>1. PICK e \in Nat \ {0} : e = -d
      BY <2>2
    <3>2. b <= b * e
      BY AtLeastOnce
    <3>3. b * e = -(b * d)
      BY <3>1
    <3>4. QED
      BY <1>5, <3>2, <3>3
  <2>3. QED
    BY <2>1, <2>2
<1>7. r1 = r2
  <2>1. b * d = 0
    BY <1>6
  <2>2. QED
    BY <1>5, <2>1
<1>8. v % b = w % b
  <2> HIDE DEF v
  <2>1. QED
    BY <1>2, <1>3, <1>7
<1>9. QED
  BY <1>8

LEMMA AsMultiple ==
  ASSUME NEW x \in Int, NEW b \in Nat \ {0}, x % b = 0
  PROVE  \E m \in Int : x = b * m
<1>1. x = b * (x \div b) + (x % b) /\ (x \div b) \in Int
  BY Divided
<1>2. PICK m \in Int : m = x \div b
  BY <1>1
<1>3. x = b * m
  BY <1>1, <1>2
<1>4. QED
  BY <1>3

(* Rounding up a sum with a multiple.                                      *)
LEMMA AlignUpShift ==
  ASSUME NEW x \in Nat, NEW v \in Nat, NEW b \in Nat \ {0}, x % b = 0
  PROVE  AlignUp(x + v, b) = x + AlignUp(v, b)
<1>1. PICK m \in Int : x = b * m
  BY AsMultiple
<1>2. PICK l \in Int : l = -m
  OBVIOUS
<1>3. -(x + v) = b * l + (-v)
  BY <1>1, <1>2
<1>4. PICK w \in Int : w = -v
  OBVIOUS
<1>5. (b * l + w) % b = w % b
  BY OneRemainder
<1>6. (-(x + v)) % b = (-v) % b
  BY <1>3, <1>4, <1>5
<1>7. QED
  BY <1>6 DEF AlignUp

LEMMA AlignUpSame ==
  ASSUME NEW x \in Nat, NEW b \in Nat \ {0}, x % b = 0
  PROVE  AlignUp(x, b) = x
<1>1. AlignUp(x + 0, b) = x + AlignUp(0, b)
  BY AlignUpShift
<1>2. (-0) % b = 0
  OBVIOUS
<1>3. QED
  BY <1>1, <1>2 DEF AlignUp

LEMMA AlignUpPositive ==
  ASSUME NEW v \in Nat \ {0}, NEW b \in Nat \ {0}
  PROVE  b <= AlignUp(v, b)
<1>1. PICK x \in Int : x = AlignUp(v, b) /\ v <= x /\ x % b = 0
  BY RoundsUp
<1>2. PICK m \in Int : x = b * m
  BY <1>1, AsMultiple
<1>3. m > 0
  <2>1. ASSUME m <= 0 PROVE FALSE
    <3>1. PICK e \in Nat : e = -m
      BY <2>1
    <3>2. b * e \in Nat /\ b * e = -(b * m)
      BY <3>1
    <3>3. QED
      BY <1>1, <1>2, <3>2
  <2>2. QED
    BY <2>1
<1>4. b <= b * m
  BY <1>3, AtLeastOnce
<1>5. QED
  BY <1>1, <1>2, <1>4

(* A multiple of a multiple.                                               *)
LEMMA AlignUpNested ==
  ASSUME NEW v \in Nat, NEW b \in Nat \ {0}, NEW a \in Nat \ {0}, a % b = 0
  PROVE  AlignUp(v, a) % b = 0
<1>1. PICK x \in Nat : x = AlignUp(v, a) /\ x % a = 0
  BY RoundsUp
<1>2. PICK m \in Int : x = a * m
  BY <1>1, AsMultiple
<1>3. PICK l \in Int : a = b * l
  BY AsMultiple
<1>4. PICK j \in Int : j = l * m
  OBVIOUS
<1>5. x = b * j
  BY <1>2, <1>3, <1>4
<1>6. x % b = 0
  BY <1>5, Multiple
<1>7. QED
  BY <1>1, <1>6

(* The induction that the least counterexample gives.                      *)
LEMMA LeastElement ==
  ASSUME NEW T \in SUBSET Nat, T # {}
  PROVE  \E x \in T : \A y \in T : x <= y
<1> DEFINE R == OpToRel(<, Nat)
<1>1. IsWellFoundedOn(R, Nat)
  BY NatLessThanWellFounded, Zenon
<1>2. ASSUME NEW a \in Nat, NEW b \in Nat, a < b PROVE <<a, b>> \in R
  BY <1>2, Zenon DEF OpToRel
<1> HIDE DEF R
<1>3. PICK x \in T : \A y \in T : ~(<<y, x>> \in R)
  BY <1>1, WFMin, Zenon
<1>4. ASSUME NEW y \in T PROVE x <= y
  <2>1. ~(y < x)
    BY <1>2, <1>3
  <2>2. QED
    BY <2>1
<1>5. QED
  BY <1>4

(* A set of numbers that holds 0 and with each number the next holds all.  *)
LEMMA Induction ==
  ASSUME NEW T \in SUBSET Nat, 0 \in T, \A m \in T : m + 1 \in T
  PROVE  T = Nat
<1> DEFINE Rest == Nat \ T
<1>1. ASSUME Rest # {} PROVE FALSE
  <2>1. Rest \in SUBSET Nat
    OBVIOUS
  <2>2. PICK x \in Rest : \A y \in Rest : x <= y
    <3> HIDE DEF Rest
    <3>1. QED
      BY <1>1, <2>1, LeastElement
  <2>3. x \in Nat /\ x \notin T /\ x # 0
    BY <2>2
  <2>4. x - 1 \in Nat /\ ~(x <= x - 1) /\ (x - 1) + 1 = x
    BY <2>3
  <2>5. x - 1 \in T
    BY <2>2, <2>4
  <2>6. QED
    BY <2>3, <2>4, <2>5
<1>2. QED
  BY <1>1

LEMMA RunningSum ==
  ASSUME NEW L \in Nat, NEW H \in Nat, NEW R \in [1 .. L -> Nat]
  PROVE  \E g : g = [p \in 0 .. L |-> IF p = 0 THEN H ELSE g[p - 1] + R[p]]
<1> DEFINE Sum(g, m) == /\ g \in [0 .. m -> Nat] /\ g[0] = H
                        /\ \A p \in 1 .. m : g[p] = g[p - 1] + R[p]
           T == {m \in Nat : m <= L => \E g : Sum(g, m)}
<1>1. 0 \in T
  <2>1. Sum([p \in 0 .. 0 |-> H], 0)
    OBVIOUS
  <2> HIDE DEF Sum
  <2>2. QED
    BY <2>1
<1>2. ASSUME NEW m \in T PROVE m + 1 \in T
  <2>1. m \in Nat /\ m + 1 \in Nat
    OBVIOUS
  <2>2. ASSUME m + 1 <= L PROVE \E g : Sum(g, m + 1)
    <3>1. m <= L /\ R[m + 1] \in Nat
      BY <2>1, <2>2
    <3>2. PICK h : Sum(h, m)
      <4> HIDE DEF Sum
      <4>1. QED
        BY <3>1
    <3> DEFINE g == [p \in 0 .. m + 1 |-> IF p = m + 1 THEN h[m] + R[m + 1] ELSE h[p]]
    <3>3. h[m] \in Nat
      BY <2>1, <3>2
    <3>4. g \in [0 .. m + 1 -> Nat]
      <4>1. ASSUME NEW p \in 0 .. m + 1, p # m + 1 PROVE p \in 0 .. m
        BY <2>1, <4>1
      <4>2. QED
        BY <3>1, <3>2, <3>3, <4>1
    <3>5. g[0] = H
      BY <2>1, <3>2
    <3>6. ASSUME NEW p \in 1 .. m + 1 PROVE g[p] = g[p - 1] + R[p]
      <4>1. p - 1 \in 0 .. m + 1 /\ p - 1 # m + 1 /\ g[p - 1] = h[p - 1] /\ p \in 0 .. m + 1
        BY <2>1
      <4>2. CASE p = m + 1
        BY <2>1, <4>1, <4>2
      <4>3. CASE p # m + 1
        <5>1. p \in 1 .. m
          BY <2>1, <4>3
        <5>2. QED
          BY <3>2, <4>1, <4>3, <5>1
      <4>4. QED
        BY <4>2, <4>3
    <3> HIDE DEF g
    <3>7. Sum(g, m + 1)
      BY <3>4, <3>5, <3>6
    <3>8. QED
      BY <3>7
  <2> HIDE DEF Sum
  <2>3. QED
    BY <2>1, <2>2
<1>3. T = Nat
  <2> HIDE DEF T
  <2>1. T \in SUBSET Nat
    BY DEF T
  <2>2. QED
    BY <1>1, <1>2, <2>1, Induction
<1>4. PICK g : Sum(g, L)
  <2> HIDE DEF Sum
  <2>1. L \in {m \in Nat : m <= L => \E g : Sum(g, m)}
    BY <1>3, Zenon
  <2>2. QED
    BY <2>1
<1>5. g = [p \in 0 .. L |-> IF p = 0 THEN H ELSE g[p - 1] + R[p]]
  <2>1. ASSUME NEW p \in 0 .. L, p # 0 PROVE p \in 1 .. L
    BY <2>1
  <2>2. QED
    BY <1>4, <2>1
<1>6. QED
  BY <1>5

(* A finite set of numbers has a highest.                                  *)
LEMMA HighestOf ==
  ASSUME NEW m \in Nat \ {0}, NEW f \in [1 .. m -> Nat]
  PROVE  \E p \in 1 .. m : \A q \in 1 .. m : f[q] <= f[p]
<1> DEFINE T == {l \in Nat : l + 1 <= m => \E p \in 1 .. l + 1 : \A q \in 1 .. l + 1 : f[q] <= f[p]}
<1>1. 0 \in T
  <2>1. ASSUME 0 + 1 <= m PROVE \A q \in 1 .. 0 + 1 : f[q] <= f[1]
    BY <2>1
  <2>2. QED
    BY <2>1
<1>2. ASSUME NEW l \in T PROVE l + 1 \in T
  <2>1. l \in Nat
    OBVIOUS
  <2>2. ASSUME l + 1 + 1 <= m
        PROVE  \E p \in 1 .. l + 1 + 1 : \A q \in 1 .. l + 1 + 1 : f[q] <= f[p]
    <3>1. PICK p \in 1 .. l + 1 : \A q \in 1 .. l + 1 : f[q] <= f[p]
      BY <2>1, <2>2
    <3>2. \A q \in 1 .. l + 1 + 1 : f[q] \in Nat /\ (q = l + 2 \/ q \in 1 .. l + 1)
      BY <2>1, <2>2
    <3>3. CASE f[p] <= f[l + 2]
      <4>1. \A q \in 1 .. l + 1 + 1 : f[q] <= f[l + 2]
        BY <2>1, <3>1, <3>2, <3>3
      <4>2. QED
        BY <2>1, <4>1
    <3>4. CASE ~(f[p] <= f[l + 2])
      <4>1. p \in 1 .. l + 1 + 1 /\ l + 2 \in 1 .. l + 1 + 1
        BY <2>1
      <4>2. f[p] \in Nat /\ f[l + 2] \in Nat /\ f[l + 2] <= f[p]
        BY <3>2, <3>4, <4>1
      <4>3. \A q \in 1 .. l + 1 + 1 : f[q] <= f[p]
        BY <3>1, <3>2, <4>2
      <4>4. QED
        BY <4>1, <4>3
    <3>5. QED
      BY <3>3, <3>4
  <2>3. QED
    BY <2>1, <2>2
<1>3. T = Nat
  <2> HIDE DEF T
  <2>1. T \in SUBSET Nat
    BY DEF T
  <2>2. QED
    BY <1>1, <1>2, <2>1, Induction
<1>4. m - 1 \in T /\ m - 1 + 1 = m
  <2> HIDE DEF T
  <2>1. QED
    BY <1>3
<1>5. QED
  BY <1>4

LEMMA FiniteImage ==
  ASSUME NEW S, IsFiniteSet(S), NEW f
  PROVE  IsFiniteSet({f[x] : x \in S})
<1> DEFINE T == {f[x] : x \in S}
           g == [x \in S |-> f[x]]
<1>1. g \in Surjection(S, T)
  BY DEF Surjection
<1> HIDE DEF g, T
<1>2. IsFiniteSet(T)
  BY <1>1, FS_Surjection
<1>3. QED
  BY <1>2 DEF T

(***************************************************************************)
(* Merging, as the writer knows it.                                        *)
(***************************************************************************)
LEMMA Part ==
  ASSUME NEW s \in PoolParts
  PROVE  /\ s.align \in Nat \ {0} /\ s.raw \in Nat /\ s.virt \in Nat
         /\ IsFiniteSet(s.relocs) /\ s.align \in Aligns
<1>1. PICK o \in Pool : \E m \in DOMAIN o.sections : s = o.sections[m]
  BY DEF PoolParts, PartsIn
<1>2. PICK m \in DOMAIN o.sections : s = o.sections[m]
  BY <1>1
<1>3. IsObject(o)
  BY LinkerAssumption
<1>4. IsFiniteSet(s.relocs)
  BY <1>2, <1>3 DEF IsObject
<1>5. s.align \in Aligns
  BY DEF Aligns
<1>6. QED
  BY <1>2, <1>4, <1>5, Parts

Held(s) == IF s.name \in DOMAIN sections THEN sections[s.name] ELSE Fresh(s)

(* Every section but one is as before; that one has more in it.            *)
LEMMA MergeOf ==
  ASSUME IInv, MergeSection
  PROVE  \E s \in PoolParts : \E start \in Nat :
           /\ sections' = Put(sections, s.name, Merged(Held(s), s, start))
           /\ Held(s).raw \in Nat /\ Held(s).virt \in Nat /\ Held(s).align \in Nat \ {0}
           /\ Held(s).raw <= start /\ (Held(s).raw = 0 => start = 0)
<1> DEFINE s == objects[k].sections[n]
           start == Start(Held(s), s)
<1>1. k \in DOMAIN objects /\ n \in DOMAIN objects[k].sections
      /\ sections' = Put(sections, s.name, Merged(Held(s), s, start))
  BY DEF MergeSection, Held
<1>2. objects \in Seq(Pool) /\ objects[k] \in Pool
  BY <1>1 DEF IInv, InputsOK
<1>3. s \in PoolParts
  BY <1>1, <1>2 DEF PoolParts, PartsIn
<1> HIDE DEF s
<1>4. s.align \in Nat \ {0} /\ s.raw \in Nat /\ s.virt \in Nat
  BY <1>3, Part
<1>5. Held(s).raw \in Nat /\ Held(s).virt \in Nat /\ Held(s).align \in Nat \ {0}
  BY <1>4 DEF IInv, SectionsOK, Fresh, Held
<1>6. start \in Nat /\ Held(s).raw <= start
  BY <1>4, <1>5, RoundsUp DEF Start
<1>7. Held(s).raw = 0 => start = 0
  <2>1. 0 % s.align = 0
    BY <1>4
  <2>2. AlignUp(0, s.align) = 0
    BY <1>4, <2>1, AlignUpSame
  <2>3. QED
    BY <2>2 DEF Start
<1> HIDE DEF start
<1>8. QED
  BY <1>1, <1>3, <1>5, <1>6, <1>7

LEMMA ReserveOf ==
  ASSUME IInv, ReserveIat
  PROVE  \/ sections' = sections
         \/ \E raw \in Nat \ {0} : sections' = Put(sections, ".idata", [Idata EXCEPT !.raw = raw])
<1>1. CASE Imports = {}
  BY <1>1 DEF ReserveIat
<1>2. CASE Imports # {}
  <2> DEFINE start == AlignUp(Idata.raw, 8)
             count == Cardinality(Imports)
  <2>1. sections' = Put(sections, ".idata", [Idata EXCEPT !.raw = start + SlotSize * count])
    BY <1>2 DEF ReserveIat
  <2>2. Idata.raw \in Nat
    BY DEF IInv, SectionsOK, Idata
  <2>3. start \in Nat
    BY <2>2, RoundsUp
  <2>4. count \in Nat \ {0}
    BY <1>2, ImportsFinite, FS_CardinalityType, FS_EmptySet
  <2> HIDE DEF start, count
  <2>5. start + SlotSize * count \in Nat \ {0}
    BY <2>3, <2>4 DEF SlotSize
  <2>6. QED
    BY <2>1, <2>5
<1>3. QED
  BY <1>1, <1>2

LEMMA MergeKnown ==
  ASSUME IInv, SectionsKnown, MergeSection
  PROVE  SectionsKnown'
<1>1. PICK s \in PoolParts, start \in Nat :
        /\ sections' = Put(sections, s.name, Merged(Held(s), s, start))
        /\ Held(s).raw \in Nat /\ Held(s).virt \in Nat /\ Held(s).align \in Nat \ {0}
        /\ Held(s).raw <= start /\ (Held(s).raw = 0 => start = 0)
  BY MergeOf
<1> DEFINE new == Merged(Held(s), s, start)
<1>2. /\ DOMAIN sections' = DOMAIN sections \union {s.name}
      /\ sections'[s.name] = new
      /\ \A x \in DOMAIN sections : x # s.name => sections'[x] = sections[x]
  BY <1>1 DEF Put
<1>3. result' = result
  BY DEF MergeSection
<1>4. s.align \in Nat \ {0} /\ s.raw \in Nat /\ s.virt \in Nat /\ IsFiniteSet(s.relocs)
      /\ s.align \in Aligns
  BY Part
<1>5. /\ new.bss = (Held(s).bss \/ s.bss) /\ new.align = Larger(Held(s).align, s.align)
      /\ new.raw = start + s.raw
      /\ new.virt = (IF s.virt > s.raw THEN start + s.virt ELSE Held(s).virt)
  BY DEF Merged
<1>6. IsFiniteSet(new.relocs)
  <2> DEFINE carried == [r \in s.relocs |->
        [off |-> r.off + start, kind |-> r.kind, sym |-> r.sym, add |-> r.add, adj |-> r.adj,
         from |-> <<k, s.name, r.off>>]]
  <2>1. new.relocs = Held(s).relocs \union {carried[r] : r \in s.relocs}
    BY DEF Merged
  <2> HIDE DEF carried
  <2>2. IsFiniteSet({carried[r] : r \in s.relocs})
    BY <1>4, FiniteImage
  <2>3. IsFiniteSet(Held(s).relocs)
    BY FS_EmptySet DEF Held, Fresh, SectionsKnown, FiniteOK
  <2>4. QED
    BY <2>1, <2>2, <2>3, FS_Union
<1> HIDE DEF new
<1>7. FiniteOK'
  <2>1. IsFiniteSet(DOMAIN sections')
    BY <1>2, FS_AddElement DEF SectionsKnown, FiniteOK
  <2>2. QED
    BY <1>2, <1>3, <1>6, <2>1 DEF SectionsKnown, FiniteOK
<1>8. KnownOK'
  <2>1. Held(s).align \in Aligns
    BY <1>4 DEF SectionsKnown, KnownOK, Held, Fresh
  <2>2. new.align \in Aligns
    BY <1>4, <1>5, <2>1 DEF Larger
  <2>3. QED
    BY <1>2, <2>2 DEF SectionsKnown, KnownOK
<1>9. ASSUME BssEmpty PROVE BssOK'
  <2>1. ASSUME new.bss PROVE \E t \in PoolParts : t.bss /\ t.name = s.name
    <3>1. CASE s.bss
      BY <3>1
    <3>2. CASE ~s.bss
      <4>1. s.name \in DOMAIN sections /\ sections[s.name].bss
        BY <1>5, <2>1, <3>2 DEF Held, Fresh
      <4>2. QED
        BY <1>9, <4>1 DEF SectionsKnown, BssOK
    <3>3. QED
      BY <3>1, <3>2
  <2>2. ASSUME NEW t \in PoolParts, t.bss, t.name = s.name PROVE new.raw = 0
    <3>1. s.raw = 0
      BY <1>9, <2>2 DEF BssEmpty
    <3>2. Held(s).raw = 0
      BY <1>9, <2>2 DEF SectionsKnown, BssOK, Held, Fresh
    <3>3. QED
      BY <1>1, <1>5, <3>1, <3>2
  <2>3. QED
    BY <1>2, <1>9, <2>1, <2>2 DEF SectionsKnown, BssOK
<1>10. ASSUME NoEmpty PROVE FilledOK'
  <2>1. s.raw > 0 \/ s.virt > 0
    BY <1>4, <1>10 DEF NoEmpty, VirtualSize, Larger
  <2>2. VirtualSize(new) > 0
    BY <1>1, <1>4, <1>5, <2>1 DEF VirtualSize, Larger
  <2>3. QED
    BY <1>2, <1>10, <2>2 DEF SectionsKnown, FilledOK
<1>11. QED
  BY <1>7, <1>8, <1>9, <1>10 DEF SectionsKnown, BssEmpty, NoEmpty

LEMMA ReserveKnown ==
  ASSUME IInv, SectionsKnown, ReserveIat
  PROVE  SectionsKnown'
<1>1. result' = result
  BY DEF ReserveIat
<1>2. CASE sections' = sections
  BY <1>1, <1>2 DEF SectionsKnown, FiniteOK, KnownOK, BssOK, FilledOK, BssEmpty, NoEmpty
<1>3. CASE \E raw \in Nat \ {0} : sections' = Put(sections, ".idata", [Idata EXCEPT !.raw = raw])
  <2>1. PICK raw \in Nat \ {0} : sections' = Put(sections, ".idata", [Idata EXCEPT !.raw = raw])
    BY <1>3
  <2> DEFINE new == [Idata EXCEPT !.raw = raw]
  <2>2. /\ DOMAIN sections' = DOMAIN sections \union {".idata"}
        /\ sections'[".idata"] = new
        /\ \A x \in DOMAIN sections : x # ".idata" => sections'[x] = sections[x]
    BY <2>1 DEF Put
  <2>3. /\ new.bss = Idata.bss /\ new.align = Idata.align /\ new.raw = raw
        /\ new.virt = Idata.virt /\ new.relocs = Idata.relocs
    BY DEF Idata, IInv, SectionsOK
  <2> HIDE DEF new
  <2>4. IsFiniteSet(Idata.relocs) /\ Idata.align \in Aligns /\ Idata.virt \in Nat
    BY FS_EmptySet DEF SectionsKnown, FiniteOK, KnownOK, Idata, Aligns, IInv, SectionsOK
  <2>5. FiniteOK'
    <3>1. IsFiniteSet(DOMAIN sections')
      BY <2>2, FS_AddElement DEF SectionsKnown, FiniteOK
    <3>2. QED
      BY <1>1, <2>2, <2>3, <2>4, <3>1 DEF SectionsKnown, FiniteOK
  <2>6. KnownOK'
    BY <2>2, <2>3, <2>4 DEF SectionsKnown, KnownOK
  <2>7. ASSUME BssEmpty PROVE BssOK'
    <3>1. ASSUME NEW t \in PoolParts, t.bss PROVE t.name # ".idata"
      BY <2>7, <3>1 DEF BssEmpty
    <3>2. ~new.bss
      BY <2>3, <2>7, <3>1 DEF SectionsKnown, BssOK, Idata
    <3>3. QED
      BY <2>2, <2>7, <3>1, <3>2 DEF SectionsKnown, BssOK
  <2>8. ASSUME NoEmpty PROVE FilledOK'
    <3>1. VirtualSize(new) > 0
      BY <2>3, <2>4 DEF VirtualSize, Larger
    <3>2. QED
      BY <2>2, <2>8, <3>1 DEF SectionsKnown, FilledOK
  <2>9. QED
    BY <2>5, <2>6, <2>7, <2>8 DEF SectionsKnown, BssEmpty, NoEmpty
<1>4. QED
  BY <1>2, <1>3, ReserveOf

LEMMA FieldsFinite ==
  ASSUME FiniteOK
  PROVE  IsFiniteSet(Fields)
<1> DEFINE Of == [s \in DOMAIN sections |-> {<<s, r>> : r \in sections[s].relocs}]
<1>1. ASSUME NEW s \in DOMAIN sections PROVE IsFiniteSet(Of[s])
  <2> DEFINE pair == [r \in sections[s].relocs |-> <<s, r>>]
  <2>1. Of[s] = {pair[r] : r \in sections[s].relocs}
    OBVIOUS
  <2> HIDE DEF pair
  <2>2. IsFiniteSet({pair[r] : r \in sections[s].relocs})
    BY FiniteImage DEF FiniteOK
  <2>3. QED
    BY <2>1, <2>2
<1>2. Fields = UNION {Of[s] : s \in DOMAIN sections}
  BY DEF Fields
<1> HIDE DEF Of
<1>3. IsFiniteSet({Of[s] : s \in DOMAIN sections})
  BY FiniteImage DEF FiniteOK
<1>4. IsFiniteSet(UNION {Of[s] : s \in DOMAIN sections})
  <2> DEFINE parts == {Of[s] : s \in DOMAIN sections}
  <2>1. \A part \in parts : IsFiniteSet(part)
    BY <1>1
  <2> HIDE DEF parts
  <2>2. IsFiniteSet(parts) => IsFiniteSet(UNION parts)
    BY <2>1, FS_UNION
  <2>3. QED
    BY <1>3, <2>2 DEF parts
<1>5. QED
  BY <1>2, <1>4

LEMMA ApplyKnown ==
  ASSUME SectionsKnown, Apply
  PROVE  SectionsKnown'
<1>1. UNCHANGED sections
  BY DEF Apply
<1>2. IsFiniteSet(result'.base_relocs)
  <2>1. CASE UNCHANGED result
    BY <2>1 DEF SectionsKnown, FiniteOK
  <2>2. CASE ~UNCHANGED result
    <3> DEFINE moved == {f \in Fields : NeedsBaseReloc(f[2].kind)}
               site == [f \in moved |-> <<f[1], f[2].off>>]
    <3>1. result'.base_relocs = {site[f] : f \in moved}
      BY <2>2 DEF Apply
    <3> HIDE DEF site
    <3>2. IsFiniteSet(moved)
      BY FieldsFinite, FS_Subset DEF SectionsKnown
    <3> HIDE DEF moved
    <3>3. QED
      BY <3>1, <3>2, FiniteImage
  <2>3. QED
    BY <2>1, <2>2
<1>3. QED
  BY <1>1, <1>2 DEF SectionsKnown, FiniteOK, KnownOK, BssOK, FilledOK, BssEmpty, NoEmpty

LEMMA InitKnown == Init => SectionsKnown
  BY FS_EmptySet DEF Init, NoResult, SectionsKnown, FiniteOK, KnownOK, BssOK, FilledOK

LEMMA NextKnown == IInv /\ SectionsKnown /\ [Next]_vars => SectionsKnown'
<1> SUFFICES ASSUME IInv, SectionsKnown, [Next]_vars PROVE SectionsKnown'
  OBVIOUS
<1>1. ASSUME UNCHANGED <<sections, result>> PROVE SectionsKnown'
  BY <1>1 DEF SectionsKnown, FiniteOK, KnownOK, BssOK, FilledOK, BssEmpty, NoEmpty
<1>2. ASSUME NEW b \in Bases, Relink(b) PROVE SectionsKnown'
  <2>1. sections' = <<>> /\ result' = NoResult
    BY <1>2 DEF Relink
  <2>2. QED
    BY <2>1, FS_EmptySet
    DEF NoResult, SectionsKnown, FiniteOK, KnownOK, BssOK, FilledOK, BssEmpty, NoEmpty
<1>3. CASE \/ NextSections \/ MergeSymbol \/ NextSymbols \/ PlaceSection \/ Bind
           \/ (\E o \in Pool : AddObject(o)) \/ UNCHANGED vars
  BY <1>1, <1>3 DEF NextSections, MergeSymbol, NextSymbols, PlaceSection, Bind, AddObject, vars
<1>4. QED
  BY <1>2, <1>3, MergeKnown, ReserveKnown, ApplyKnown DEF Next, Link

LEMMA KnownInvariance == Spec => []SectionsKnown
  BY InitKnown, NextKnown, Invariance, PTL DEF Spec

(***************************************************************************)
(* Placing, as the writer knows it.                                        *)
(***************************************************************************)
LEMMA FirstRvaType == FirstRva \in Nat /\ FirstRva % SectionAlign = 0
  BY LinkerAssumption, RoundsUp DEF FirstRva

LEMMA NothingPlaced ==
  ASSUME layout' = <<>>, phase' = "layout" => rva' = FirstRva
  PROVE  PlacedKnown'
<1>1. DOMAIN layout' = {} /\ Len(layout') = 0
  OBVIOUS
<1>2. Unplaced' \subseteq DOMAIN SectionOrder
  BY DEF Unplaced
<1>3. DOMAIN SectionOrder = 1 .. Len(SectionOrder) /\ Len(SectionOrder) \in Nat
  BY LinkerAssumption
<1>4. OrderOK'
  BY <1>1, <1>2, <1>3, FirstRvaType DEF OrderOK
<1>5. OwnLast' /\ AlignedOK' /\ TiledOK'
  BY <1>1, FirstRvaType DEF OwnLast, AlignedOK, TiledOK
<1>6. QED
  BY <1>4, <1>5 DEF PlacedKnown, RelocLast, AlignmentsNest, AlignmentsSmall, NoEmpty

LEMMA PlacedKept ==
  ASSUME PlacedKnown, UNCHANGED <<sections, layout, rva>>, phase' = "layout" => phase = "layout"
  PROVE  PlacedKnown'
<1>1. Unplaced' = Unplaced /\ \A p : EndOf(p)' = EndOf(p)
  BY DEF Unplaced, EndOf, VirtualSize
<1>2. OrderOK' /\ (OwnLast => OwnLast') /\ (AlignedOK => AlignedOK') /\ (TiledOK => TiledOK')
  BY <1>1 DEF PlacedKnown, OrderOK, OwnLast, AlignedOK, TiledOK
<1>3. QED
  BY <1>2 DEF PlacedKnown, RelocLast, AlignmentsNest, AlignmentsSmall, NoEmpty

(* What plan_layout does with the next section.                            *)
LEMMA PlaceOf ==
  ASSUME IInv, SectionsKnown, PlaceSection
  PROVE  \E i \in Unplaced : \E at, room, off \in Nat :
           /\ \A j \in Unplaced : i <= j
           /\ SectionOrder[i] \in DOMAIN sections
           /\ layout' = Append(layout, [name |-> SectionOrder[i], rva |-> at, file |-> off])
           /\ at = AlignUp(rva, Larger(SectionAlign, sections[SectionOrder[i]].align))
           /\ rva <= at /\ rva' = at + room /\ room = Room(sections[SectionOrder[i]])
           /\ phase = "layout" /\ UNCHANGED <<phase, sections>>
           /\ sections[SectionOrder[i]].align \in Nat \ {0}
           /\ sections[SectionOrder[i]].align \in Aligns
           /\ VirtualSize(sections[SectionOrder[i]]) \in Nat
<1>1. PICK i \in Unplaced :
        LET name == SectionOrder[i]
            s == sections[name]
            at == AlignUp(rva, Larger(SectionAlign, s.align))
        IN  /\ \A j \in Unplaced : i <= j
            /\ layout' = Append(layout, [name |-> name, rva |-> at,
                                         file |-> IF s.bss THEN 0 ELSE file_off])
            /\ rva' = at + Room(s)
  BY DEF PlaceSection
<1> DEFINE s == sections[SectionOrder[i]]
<1>2. SectionOrder[i] \in DOMAIN sections
  BY DEF Unplaced
<1>3. s.raw \in Nat /\ s.virt \in Nat /\ s.align \in Nat \ {0} /\ s.align \in Aligns
  BY <1>2 DEF IInv, SectionsOK, SectionsKnown, KnownOK
<1>4. phase = "layout" /\ UNCHANGED <<phase, sections>> /\ rva \in Nat
  BY DEF PlaceSection, IInv, LayoutOK
<1>5. VirtualSize(s) \in Nat
  BY <1>3 DEF VirtualSize, Larger
<1>6. Room(s) \in Nat
  BY <1>5, LinkerAssumption, RoundsUp DEF Room, Larger
<1> DEFINE at == AlignUp(rva, Larger(SectionAlign, s.align))
<1>7. at \in Nat /\ rva <= at
  BY <1>3, <1>4, LinkerAssumption, Larger2, RoundsUp
<1> HIDE DEF at
<1>8. /\ layout' = Append(layout, [name |-> SectionOrder[i], rva |-> at,
                                   file |-> IF s.bss THEN 0 ELSE file_off])
      /\ rva' = at + Room(s)
  BY <1>1 DEF at
<1>9. at = AlignUp(rva, Larger(SectionAlign, s.align))
  BY DEF at
<1>10. PICK off \in Nat : off = IF s.bss THEN 0 ELSE file_off
  BY DEF IInv, LayoutOK
<1> HIDE DEF s
<1>11. QED
  BY <1>1, <1>2, <1>3, <1>4, <1>5, <1>6, <1>7, <1>8, <1>9, <1>10 DEF s

LEMMA PlacePlaced ==
  ASSUME IInv, SectionsKnown, PlacedKnown, PlaceSection
  PROVE  PlacedKnown'
<1>1. PICK i \in Unplaced, at \in Nat, room \in Nat, off \in Nat :
        /\ \A j \in Unplaced : i <= j
        /\ SectionOrder[i] \in DOMAIN sections
        /\ layout' = Append(layout, [name |-> SectionOrder[i], rva |-> at, file |-> off])
        /\ at = AlignUp(rva, Larger(SectionAlign, sections[SectionOrder[i]].align))
        /\ rva <= at /\ rva' = at + room /\ room = Room(sections[SectionOrder[i]])
        /\ phase = "layout" /\ UNCHANGED <<phase, sections>>
        /\ sections[SectionOrder[i]].align \in Nat \ {0}
        /\ sections[SectionOrder[i]].align \in Aligns
        /\ VirtualSize(sections[SectionOrder[i]]) \in Nat
  BY PlaceOf
<1> DEFINE name == SectionOrder[i]
           s == sections[name]
<1>2. PICK m \in Nat : /\ m = Len(layout) /\ DOMAIN layout = 1 .. m
                       /\ layout \in Seq([name : DOMAIN sections, rva : Nat, file : Nat])
  BY DEF IInv, LayoutOK
<1>3. /\ DOMAIN layout' = 1 .. m + 1 /\ Len(layout') = m + 1
      /\ \A p \in 1 .. m : layout'[p] = layout[p]
      /\ layout'[m + 1].name = name /\ layout'[m + 1].rva = at
  <2> DEFINE new == [name |-> name, rva |-> at, file |-> off]
  <2>1. layout' = Append(layout, new) /\ new.name = name /\ new.rva = at
    BY <1>1
  <2>2. new \in [name : DOMAIN sections, rva : Nat, file : Nat]
    BY <1>1
  <2> HIDE DEF new
  <2>3. /\ DOMAIN layout' = 1 .. m + 1 /\ Len(layout') = m + 1
        /\ \A p \in 1 .. m : layout'[p] = layout[p]
        /\ layout'[m + 1] = new
    BY <1>2, <2>1, <2>2
  <2>4. QED
    BY <2>1, <2>3
<1>4. DOMAIN SectionOrder = 1 .. Len(SectionOrder) /\ Len(SectionOrder) \in Nat
      /\ i \in DOMAIN SectionOrder /\ rva \in Nat
  BY LinkerAssumption DEF Unplaced, IInv, LayoutOK
<1>5. \A j \in Unplaced' : j \in Unplaced /\ j \in DOMAIN SectionOrder /\ i < j /\ SectionOrder[j] # name
  <2> SUFFICES ASSUME NEW j \in Unplaced'
               PROVE  j \in Unplaced /\ j \in DOMAIN SectionOrder /\ i < j /\ SectionOrder[j] # name
    OBVIOUS
  <2>1. /\ j \in DOMAIN SectionOrder /\ SectionOrder[j] \in DOMAIN sections
        /\ \A p \in 1 .. m + 1 : layout'[p].name # SectionOrder[j]
    BY <1>1, <1>3 DEF Unplaced
  <2>2. m + 1 \in 1 .. m + 1 /\ 1 .. m \subseteq 1 .. m + 1
    BY <1>2
  <2>3. SectionOrder[j] # name
    BY <1>3, <2>1, <2>2
  <2>4. \A p \in 1 .. m : layout[p].name # SectionOrder[j]
    BY <1>3, <2>1, <2>2
  <2>5. j \in Unplaced
    BY <1>2, <2>1, <2>4 DEF Unplaced
  <2>6. i <= j /\ i # j
    BY <1>1, <2>3, <2>5
  <2>7. QED
    BY <1>4, <2>1, <2>3, <2>5, <2>6
<1>6. OrderOK'
  <2>1. FirstRva <= rva /\ m < i
    BY <1>1, <1>2 DEF PlacedKnown, OrderOK
  <2>2. FirstRva <= at /\ FirstRva <= rva'
    BY <1>1, <1>4, <2>1, FirstRvaType
  <2>3. \A p \in DOMAIN layout' : FirstRva <= layout'[p].rva
    <3>1. ASSUME NEW p \in 1 .. m + 1, p # m + 1 PROVE p \in 1 .. m
      BY <1>2, <3>1
    <3>2. QED
      BY <1>2, <1>3, <2>2, <3>1 DEF PlacedKnown, OrderOK
  <2>4. m + 1 <= Len(SectionOrder)
    BY <1>2, <1>4, <2>1
  <2>5. \A j \in Unplaced' : m + 1 < j
    BY <1>2, <1>4, <1>5, <2>1
  <2>6. QED
    BY <1>3, <2>2, <2>3, <2>4, <2>5, FirstRvaType DEF OrderOK, FirstRva
<1>7. ASSUME RelocLast PROVE OwnLast'
  <2>1. ASSUME NEW p \in DOMAIN layout', layout'[p].name = ".reloc"
        PROVE  p = m + 1
    <3>1. ASSUME p # m + 1 PROVE FALSE
      <4>1. p \in 1 .. m
        BY <1>2, <1>3, <3>1
      <4>2. layout[p].name = ".reloc" /\ p \in DOMAIN layout
        BY <1>2, <1>3, <2>1, <4>1
      <4>3. Unplaced = {}
        BY <1>7, <4>2 DEF PlacedKnown, OwnLast
      <4>4. QED
        BY <4>3
    <3>2. QED
      BY <3>1
  <2>2. ASSUME name = ".reloc" PROVE Unplaced' = {}
    <3>1. ASSUME NEW j \in Unplaced' PROVE FALSE
      <4>1. j \in DOMAIN SectionOrder /\ i < j /\ SectionOrder[j] \in DOMAIN sections
        BY <1>1, <1>5 DEF Unplaced
      <4>2. SectionOrder[j] = ".idata" \/ \E t \in PoolParts : t.name = SectionOrder[j]
        BY <4>1 DEF SectionsKnown, KnownOK
      <4>3. QED
        BY <1>4, <1>7, <2>2, <4>1, <4>2 DEF RelocLast
    <3>2. QED
      BY <3>1
  <2>3. QED
    BY <1>3, <2>1, <2>2 DEF OwnLast
<1>8. ASSUME AlignmentsNest PROVE AlignedOK'
  <2> DEFINE big == Larger(SectionAlign, s.align)
  <2>1. big % SectionAlign = 0
    BY <1>1, <1>8 DEF AlignmentsNest
  <2>2. big \in Nat \ {0}
    BY <1>1, LinkerAssumption, Larger2
  <2> HIDE DEF big
  <2>3. AlignUp(rva, big) % SectionAlign = 0
    BY <1>4, <2>1, <2>2, LinkerAssumption, AlignUpNested
  <2>4. at % SectionAlign = 0
    BY <1>1, <2>3 DEF big
  <2>5. ASSUME NEW p \in DOMAIN layout' PROVE layout'[p].rva % SectionAlign = 0
    <3>1. CASE p = m + 1
      BY <1>3, <2>4, <3>1
    <3>2. CASE p # m + 1
      <4>1. p \in 1 .. m
        BY <1>2, <1>3, <3>2
      <4>2. layout'[p] = layout[p] /\ p \in DOMAIN layout
        BY <1>2, <1>3, <4>1
      <4>3. QED
        BY <1>8, <4>2 DEF PlacedKnown, AlignedOK
    <3>3. QED
      BY <3>1, <3>2
  <2>6. QED
    BY <2>5 DEF AlignedOK
<1>9. ASSUME AlignmentsSmall, NoEmpty PROVE TiledOK'
  <2>1. TiledOK /\ FilledOK /\ rva % SectionAlign = 0
    BY <1>1, <1>9 DEF PlacedKnown, TiledOK, SectionsKnown
  <2>2. Larger(SectionAlign, s.align) = SectionAlign
    <3>1. s.align <= SectionAlign
      BY <1>1, <1>9 DEF AlignmentsSmall
    <3>2. QED
      BY <1>1, <3>1, LinkerAssumption DEF Larger
  <2>3. at = rva
    BY <1>1, <1>4, <2>1, <2>2, LinkerAssumption, AlignUpSame
  <2>4. VirtualSize(s) \in Nat \ {0}
    BY <1>1, <2>1 DEF FilledOK
  <2>5. room = AlignUp(VirtualSize(s), SectionAlign)
    <3>1. PICK v \in Nat \ {0} : v = VirtualSize(s)
      BY <2>4
    <3>2. AlignUp(v, SectionAlign) \in Nat /\ SectionAlign <= AlignUp(v, SectionAlign)
      BY LinkerAssumption, RoundsUp, AlignUpPositive
    <3>3. QED
      BY <1>1, <3>1, <3>2, LinkerAssumption DEF Room, Larger
  <2>6. rva' = AlignUp(at + VirtualSize(s), SectionAlign)
    <3>1. PICK v \in Nat : v = VirtualSize(s)
      BY <2>4
    <3>2. PICK b \in Nat \ {0} : b = SectionAlign
      BY LinkerAssumption
    <3>3. at % b = 0
      BY <2>1, <2>3, <3>2
    <3>4. AlignUp(at + v, b) = at + AlignUp(v, b)
      BY <3>3, AlignUpShift
    <3>5. QED
      BY <1>1, <2>5, <3>1, <3>2, <3>4
  <2>7. rva' % SectionAlign = 0
    <3>1. PICK v \in Nat : v = at + VirtualSize(s)
      BY <2>4
    <3>2. AlignUp(v, SectionAlign) % SectionAlign = 0
      BY LinkerAssumption, RoundsUp
    <3>3. QED
      BY <2>6, <3>1, <3>2
  <2>8. EndOf(m + 1)' = at + VirtualSize(s)
    BY <1>1, <1>3 DEF EndOf, VirtualSize
  <2>9. \A p \in 1 .. m : EndOf(p)' = EndOf(p)
    BY <1>1, <1>3 DEF EndOf, VirtualSize
  <2>10. ASSUME NEW p \in DOMAIN layout', p + 1 \in DOMAIN layout'
         PROVE  layout'[p + 1].rva = AlignUp(EndOf(p)', SectionAlign)
    <3>1. p \in 1 .. m /\ p + 1 \in 1 .. m + 1
      BY <1>2, <1>3, <2>10
    <3>2. CASE p = m
      <4>1. layout # <<>> /\ rva = AlignUp(EndOf(m), SectionAlign)
        BY <1>1, <1>2, <2>1, <3>1, <3>2 DEF TiledOK
      <4>2. QED
        BY <1>3, <2>3, <2>9, <3>1, <3>2, <4>1
    <3>3. CASE p # m
      <4>1. p + 1 \in 1 .. m
        BY <1>2, <3>1, <3>3
      <4>2. QED
        BY <1>2, <1>3, <2>1, <2>9, <3>1, <4>1 DEF TiledOK
    <3>4. QED
      BY <3>2, <3>3
  <2>11. QED
    BY <1>3, <2>6, <2>7, <2>8, <2>10 DEF TiledOK
<1>10. QED
  BY <1>6, <1>7, <1>8, <1>9 DEF PlacedKnown, RelocLast, AlignmentsNest, AlignmentsSmall, NoEmpty

LEMMA InitPlaced == Init => PlacedKnown
<1> SUFFICES ASSUME Init PROVE PlacedKnown
  OBVIOUS
<1>1. layout = <<>> /\ phase = "idle" /\ DOMAIN layout = {} /\ Len(layout) = 0
  BY DEF Init
<1>2. DOMAIN SectionOrder = 1 .. Len(SectionOrder) /\ Len(SectionOrder) \in Nat
  BY LinkerAssumption
<1>3. QED
  BY <1>1, <1>2 DEF PlacedKnown, OrderOK, OwnLast, AlignedOK, TiledOK, Unplaced

LEMMA NextPlaced == IInv /\ SectionsKnown /\ PlacedKnown /\ [Next]_vars => PlacedKnown'
<1> SUFFICES ASSUME IInv, SectionsKnown, PlacedKnown, [Next]_vars PROVE PlacedKnown'
  OBVIOUS
<1>1. CASE MergeSection
  BY <1>1, NothingPlaced DEF MergeSection, IInv, LayoutOK, Merging
<1>2. CASE ReserveIat
  <2>1. layout' = <<>> /\ rva' = FirstRva
    BY <1>2 DEF ReserveIat, IInv, LayoutOK, Merging, FirstRva
  <2>2. QED
    BY <2>1, NothingPlaced
<1>3. ASSUME NEW b \in Bases, Relink(b) PROVE PlacedKnown'
  BY <1>3, NothingPlaced DEF Relink
<1>4. CASE \/ NextSections \/ MergeSymbol \/ NextSymbols \/ Bind \/ Apply
           \/ (\E o \in Pool : AddObject(o)) \/ UNCHANGED vars
  <2>1. UNCHANGED <<sections, layout, rva>> /\ (phase' = "layout" => phase = "layout")
    BY <1>4 DEF NextSections, MergeSymbol, NextSymbols, Bind, Apply, AddObject, vars
  <2>2. QED
    BY <2>1, PlacedKept
<1>5. QED
  BY <1>1, <1>2, <1>3, <1>4, PlacePlaced DEF Next, Link

LEMMA PlacedInvariance == Spec => [](SectionsKnown /\ PlacedKnown)
<1>1. Spec => []PlacedKnown
  BY InitPlaced, NextPlaced, Invariance, KnownInvariance, PTL DEF Spec
<1>2. QED
  BY <1>1, KnownInvariance, PTL

(***************************************************************************)
(* Writing.                                                                *)
(***************************************************************************)
LEMMA RelocBytesType == FiniteOK => RelocBytes \in Nat
<1> SUFFICES ASSUME FiniteOK PROVE RelocBytes \in Nat
  OBVIOUS
<1> DEFINE at == [site \in result.base_relocs |-> layout[Placed(site[1])].rva + site[2]]
           page == [a \in RelocRvas |-> a - (a % PageSize)]
<1>1. RelocRvas = {at[site] : site \in result.base_relocs}
  BY DEF RelocRvas
<1>2. RelocPages = {page[a] : a \in RelocRvas}
  BY DEF RelocPages
<1> HIDE DEF at, page
<1>3. IsFiniteSet(RelocRvas)
  BY <1>1, FiniteImage DEF FiniteOK
<1>4. IsFiniteSet(RelocPages)
  BY <1>2, <1>3, FiniteImage
<1>5. IsFiniteSet(OddPages)
  <2>1. OddPages \subseteq RelocPages
    BY DEF OddPages
  <2>2. QED
    BY <1>4, <2>1, FS_Subset
<1>6. Cardinality(RelocRvas) \in Nat /\ Cardinality(RelocPages) \in Nat /\ Cardinality(OddPages) \in Nat
  BY <1>3, <1>4, <1>5, FS_CardinalityType
<1>7. QED
  BY <1>6 DEF RelocBytes

(* The sections of the layout, for the writer.                             *)
LEMMA PlacedSections ==
  ASSUME IInv, SectionsKnown, NEW p \in DOMAIN layout
  PROVE  /\ layout[p].name \in DOMAIN sections /\ layout[p].rva \in Nat
         /\ VirtualSize(sections[layout[p].name]) \in Nat /\ EndOf(p) \in Nat
         /\ sections[layout[p].name].raw \in Nat /\ Bytes(p) \in Nat
         /\ sections[layout[p].name].raw <= VirtualSize(sections[layout[p].name])
<1>1. layout[p] \in [name : DOMAIN sections, rva : Nat, file : Nat]
  BY ElementOf DEF IInv, LayoutOK
<1>2. sections[layout[p].name].raw \in Nat /\ sections[layout[p].name].virt \in Nat
  BY <1>1 DEF IInv, SectionsOK
<1>3. /\ VirtualSize(sections[layout[p].name]) \in Nat
      /\ sections[layout[p].name].raw <= VirtualSize(sections[layout[p].name])
  BY <1>2 DEF VirtualSize, Larger
<1>4. RelocBytes \in Nat
  BY RelocBytesType DEF SectionsKnown
<1>5. QED
  BY <1>1, <1>2, <1>3, <1>4 DEF EndOf, Bytes

LEMMA Rooms ==
  ASSUME IInv, SectionsKnown, NEW p \in DOMAIN layout
  PROVE  /\ FileRoom(p) \in Nat /\ FileRoom(p) % FileAlign = 0
         /\ ~sections[layout[p].name].bss => Bytes(p) <= FileRoom(p)
<1>1. PICK b \in Nat : b = Bytes(p)
  BY PlacedSections
<1>2. AlignUp(b, FileAlign) \in Nat /\ b <= AlignUp(b, FileAlign) /\ AlignUp(b, FileAlign) % FileAlign = 0
  BY LinkerAssumption, RoundsUp
<1>3. 0 % FileAlign = 0
  BY LinkerAssumption
<1>4. QED
  BY <1>1, <1>2, <1>3 DEF FileRoom

LEMMA HeadersType ==
  ASSUME IInv
  PROVE  /\ Len(layout) \in Nat /\ DOMAIN layout = 1 .. Len(layout)
         /\ HeadersEnd \in Nat /\ HeadersEnd % FileAlign = 0
         /\ HeadersEnd = AlignUp(HeaderBytes + SectionHeaderBytes *
                                   (Len(layout) + IF Synthetic THEN 1 ELSE 0), FileAlign)
<1>1. Len(layout) \in Nat /\ DOMAIN layout = 1 .. Len(layout)
  BY DEF IInv, LayoutOK
<1>2. PICK c \in Nat : c = Len(layout) + IF Synthetic THEN 1 ELSE 0
  <2>1. (IF Synthetic THEN 1 ELSE 0) \in {0, 1}
    OBVIOUS
  <2>2. PICK d \in {0, 1} : d = IF Synthetic THEN 1 ELSE 0
    BY <2>1
  <2>3. Len(layout) + d \in Nat
    BY <1>1
  <2>4. QED
    BY <2>2, <2>3
<1>3. PICK x \in Nat : x = HeaderBytes + SectionHeaderBytes * c
  BY WriterAssumption
<1>4. AlignUp(x, FileAlign) \in Nat /\ AlignUp(x, FileAlign) % FileAlign = 0
  BY LinkerAssumption, RoundsUp
<1>5. QED
  BY <1>1, <1>2, <1>3, <1>4 DEF HeadersEnd

(* The loop over the placed sections.                                      *)
LEMMA FileEndStep ==
  ASSUME IInv, SectionsKnown
  PROVE  /\ FileEnd[0] = HeadersEnd
         /\ \A p \in 1 .. Len(layout) : FileEnd[p] = FileEnd[p - 1] + FileRoom(p)
<1> DEFINE L == Len(layout)
           R == [p \in 1 .. L |-> FileRoom(p)]
<1>1. L \in Nat /\ HeadersEnd \in Nat /\ R \in [1 .. L -> Nat]
  BY HeadersType, Rooms
<1>2. \E g : g = [p \in 0 .. L |-> IF p = 0 THEN HeadersEnd ELSE g[p - 1] + R[p]]
  <2> HIDE DEF L, R
  <2>1. QED
    BY <1>1, RunningSum
<1>3. ASSUME NEW g
      PROVE  [p \in 0 .. L |-> IF p = 0 THEN HeadersEnd ELSE g[p - 1] + R[p]]
               = [p \in 0 .. L |-> IF p = 0 THEN HeadersEnd ELSE g[p - 1] + FileRoom(p)]
  <2>1. \A p \in 0 .. L : p # 0 => R[p] = FileRoom(p)
    BY <1>1
  <2> HIDE DEF R
  <2>2. QED
    BY <2>1
<1>4. \E g : g = [p \in 0 .. L |-> IF p = 0 THEN HeadersEnd ELSE g[p - 1] + FileRoom(p)]
  BY <1>2, <1>3
<1>5. FileEnd = [p \in 0 .. L |-> IF p = 0 THEN HeadersEnd ELSE FileEnd[p - 1] + FileRoom(p)]
  BY <1>4 DEF FileEnd
<1>6. 0 \in 0 .. L /\ \A p \in 1 .. L : p \in 0 .. L /\ p # 0
  BY <1>1
<1>7. QED
  BY <1>5, <1>6

LEMMA FileEnds ==
  ASSUME IInv, SectionsKnown
  PROVE  \A p \in 0 .. Len(layout) :
           FileEnd[p] \in Nat /\ HeadersEnd <= FileEnd[p] /\ FileEnd[p] % FileAlign = 0
<1> DEFINE L == Len(layout)
           T == {p \in Nat : p <= L =>
                   FileEnd[p] \in Nat /\ HeadersEnd <= FileEnd[p] /\ FileEnd[p] % FileAlign = 0}
<1>1. L \in Nat /\ HeadersEnd \in Nat /\ HeadersEnd % FileAlign = 0 /\ DOMAIN layout = 1 .. L
  BY HeadersType
<1>2. 0 \in T
  BY <1>1, FileEndStep
<1>3. ASSUME NEW p \in T PROVE p + 1 \in T
  <2>1. p \in Nat /\ p + 1 \in Nat
    OBVIOUS
  <2>2. ASSUME p + 1 <= L
        PROVE  /\ FileEnd[p + 1] \in Nat /\ HeadersEnd <= FileEnd[p + 1]
               /\ FileEnd[p + 1] % FileAlign = 0
    <3>1. p + 1 \in 1 .. L /\ (p + 1) - 1 = p /\ p <= L
      BY <1>1, <2>1, <2>2
    <3>2. FileEnd[p + 1] = FileEnd[p] + FileRoom(p + 1)
      BY <3>1, FileEndStep
    <3>3. PICK x \in Int : x = FileEnd[p] /\ x \in Nat /\ HeadersEnd <= x /\ x % FileAlign = 0
      BY <3>1
    <3>4. PICK y \in Int : y = FileRoom(p + 1) /\ y \in Nat /\ y % FileAlign = 0
      BY <1>1, <3>1, Rooms
    <3>5. PICK b \in Nat \ {0} : b = FileAlign
      BY LinkerAssumption
    <3>6. (x + y) % b = 0
      <4>1. PICK m \in Int : x = b * m
        BY <3>3, <3>5, AsMultiple
      <4>2. (b * m + y) % b = y % b
        BY OneRemainder
      <4>3. QED
        BY <3>4, <3>5, <4>1, <4>2
    <3>7. FileEnd[p + 1] = x + y
      BY <3>2, <3>3, <3>4
    <3>8. (x + y) % FileAlign = 0
      BY <3>5, <3>6
    <3>9. x + y \in Nat /\ HeadersEnd <= x + y
      <4>1. HeadersEnd \in Nat /\ x \in Nat /\ y \in Nat /\ HeadersEnd <= x
        BY <1>1, <3>3, <3>4
      <4>2. QED
        BY <4>1
    <3>10. QED
      BY <3>7, <3>8, <3>9
  <2>3. QED
    BY <2>1, <2>2
<1>4. T = Nat
  <2> HIDE DEF T
  <2>1. T \in SUBSET Nat
    BY DEF T
  <2>2. QED
    BY <1>2, <1>3, <2>1, Induction
<1>5. \A p \in 0 .. L : p \in T /\ p <= L
  BY <1>1, <1>4
<1>6. QED
  BY <1>5

(* What is written later is behind what was written before.                *)
LEMMA FileEndsGrow ==
  ASSUME IInv, SectionsKnown, NEW p \in 0 .. Len(layout), NEW q \in 0 .. Len(layout), p <= q
  PROVE  FileEnd[p] <= FileEnd[q]
<1> DEFINE L == Len(layout)
           T == {d \in Nat : p + d <= L => FileEnd[p] <= FileEnd[p + d]}
<1>1. L \in Nat /\ DOMAIN layout = 1 .. L /\ \A x \in 0 .. L : FileEnd[x] \in Nat
  BY HeadersType, FileEnds
<1>2. 0 \in T
  BY <1>1
<1>3. ASSUME NEW d \in T PROVE d + 1 \in T
  <2>1. d \in Nat /\ d + 1 \in Nat
    OBVIOUS
  <2>2. ASSUME p + (d + 1) <= L PROVE FileEnd[p] <= FileEnd[p + (d + 1)]
    <3>1. PICK y \in Nat : y = p + (d + 1) /\ y \in 1 .. L /\ y - 1 = p + d /\ p + d \in 0 .. L /\ y \in 0 .. L
      BY <1>1, <2>1, <2>2
    <3>2. FileEnd[y] = FileEnd[y - 1] + FileRoom(y) /\ FileRoom(y) \in Nat
      BY <1>1, <3>1, FileEndStep, Rooms
    <3>3. FileEnd[p] <= FileEnd[p + d] /\ FileEnd[p + d] \in Nat /\ FileEnd[p] \in Nat
      BY <1>1, <3>1
    <3>4. QED
      BY <3>1, <3>2, <3>3
  <2>3. QED
    BY <2>1, <2>2
<1>4. T = Nat
  <2> HIDE DEF T
  <2>1. T \in SUBSET Nat
    BY DEF T
  <2>2. QED
    BY <1>2, <1>3, <2>1, Induction
<1>5. q - p \in T /\ p + (q - p) = q /\ q <= L
  <2>1. q - p \in Nat /\ p + (q - p) = q /\ q <= L
    BY <1>1
  <2> HIDE DEF T
  <2>2. QED
    BY <1>4, <2>1
<1>6. QED
  BY <1>5

(* A section has its bytes of the file before the next one begins.         *)
LEMMA FileOffsets ==
  ASSUME IInv, SectionsKnown, NEW p \in 1 .. Len(layout)
  PROVE  /\ FileOffset(p) \in Nat /\ HeadersEnd <= FileOffset(p) /\ FileOffset(p) % FileAlign = 0
         /\ FileOffset(Len(layout) + 1) \in Nat /\ HeadersEnd <= FileOffset(Len(layout) + 1)
         /\ FileOffset(Len(layout) + 1) % FileAlign = 0
         /\ \A q \in 1 .. Len(layout) + 1 : p < q /\ ~sections[layout[p].name].bss =>
              FileOffset(q) \in Nat /\ FileOffset(p) + Bytes(p) <= FileOffset(q)
<1> DEFINE L == Len(layout)
<1>1. L \in Nat /\ DOMAIN layout = 1 .. L /\ HeadersEnd \in Nat
  BY HeadersType
<1>2. p - 1 \in 0 .. L /\ p \in 0 .. L /\ L \in 0 .. L /\ L + 1 - 1 = L
  BY <1>1
<1>3. /\ FileOffset(p) \in Nat /\ HeadersEnd <= FileOffset(p) /\ FileOffset(p) % FileAlign = 0
      /\ FileOffset(L + 1) \in Nat /\ HeadersEnd <= FileOffset(L + 1)
      /\ FileOffset(L + 1) % FileAlign = 0
  BY <1>2, FileEnds DEF FileOffset
<1>4. ASSUME NEW q \in 1 .. L + 1, p < q, ~sections[layout[p].name].bss
      PROVE  FileOffset(q) \in Nat /\ FileOffset(p) + Bytes(p) <= FileOffset(q)
  <2>1. q - 1 \in 0 .. L /\ p <= q - 1
    BY <1>1, <1>4
  <2>2. FileEnd[p] <= FileEnd[q - 1] /\ FileEnd[q - 1] \in Nat /\ FileEnd[p] \in Nat
    BY <1>2, <2>1, FileEnds, FileEndsGrow
  <2>3. FileEnd[p] = FileEnd[p - 1] + FileRoom(p)
    BY FileEndStep
  <2>4. FileRoom(p) \in Nat /\ Bytes(p) <= FileRoom(p) /\ Bytes(p) \in Nat
    BY <1>1, <1>4, Rooms, PlacedSections
  <2>5. QED
    BY <1>3, <2>2, <2>3, <2>4 DEF FileOffset
<1>5. QED
  BY <1>3, <1>4

(* The entries of the image: those of the layout, and the directory.       *)
LEMMA AppendOne ==
  ASSUME NEW V, NEW s \in Seq(V), NEW e \in V
  PROVE  /\ Len(s) \in Nat /\ DOMAIN (s \o <<e>>) = 1 .. Len(s) + 1
         /\ \A p \in 1 .. Len(s) : (s \o <<e>>)[p] = s[p]
         /\ (s \o <<e>>)[Len(s) + 1] = e
  OBVIOUS

LEMMA AppendNone ==
  ASSUME NEW V, NEW s \in Seq(V)
  PROVE  s \o <<>> = s
  OBVIOUS

EntryOf(p) ==
  LET s == sections[layout[p].name]
  IN  Entry(layout[p].name, layout[p].rva, VirtualSize(s), Bytes(p), IF s.bss THEN 0 ELSE FileOffset(p))
Directory == Entry(".reloc", RelocRva, RelocBytes, RelocBytes, FileOffset(Len(layout) + 1))

LEMMA EntriesAre ==
  ASSUME IInv
  PROVE  /\ DOMAIN Entries = 1 .. Len(layout) + IF Synthetic THEN 1 ELSE 0
         /\ \A p \in 1 .. Len(layout) : Entries[p] = EntryOf(p)
         /\ Synthetic => Entries[Len(layout) + 1] = Directory
<1> DEFINE placed == [p \in DOMAIN layout |-> EntryOf(p)]
           V == {EntryOf(p) : p \in DOMAIN layout} \union {Directory}
<1>1. Len(layout) \in Nat /\ DOMAIN layout = 1 .. Len(layout)
  BY HeadersType
<1>2. placed \in Seq(V) /\ Len(placed) = Len(layout) /\ Directory \in V
      /\ DOMAIN placed = 1 .. Len(layout) /\ \A p \in 1 .. Len(layout) : placed[p] = EntryOf(p)
  BY <1>1
<1>3. Entries = placed \o IF Synthetic THEN <<Directory>> ELSE <<>>
  BY DEF Entries, EntryOf, Directory
<1> HIDE DEF placed, V
<1>4. CASE Synthetic
  <2>1. Entries = placed \o <<Directory>>
    BY <1>3, <1>4
  <2>2. /\ DOMAIN Entries = 1 .. Len(placed) + 1
        /\ \A p \in 1 .. Len(placed) : Entries[p] = placed[p]
        /\ Entries[Len(placed) + 1] = Directory
    <3>1. PICK s \in Seq(V) : s = placed
      BY <1>2
    <3>2. PICK e \in V : e = Directory
      BY <1>2
    <3>3. /\ DOMAIN (s \o <<e>>) = 1 .. Len(s) + 1
          /\ \A p \in 1 .. Len(s) : (s \o <<e>>)[p] = s[p]
          /\ (s \o <<e>>)[Len(s) + 1] = e
      BY AppendOne
    <3>4. Entries = s \o <<e>>
      BY <2>1, <3>1, <3>2
    <3>5. QED
      BY <3>1, <3>2, <3>3, <3>4
  <2>3. (IF Synthetic THEN 1 ELSE 0) = 1
    BY <1>4, Zenon
  <2>4. QED
    BY <1>2, <2>2, <2>3
<1>5. CASE ~Synthetic
  <2>1. Entries = placed
    BY <1>2, <1>3, <1>5, AppendNone
  <2>2. (IF Synthetic THEN 1 ELSE 0) = 0
    BY <1>5, Zenon
  <2>3. QED
    BY <1>1, <1>2, <1>5, <2>1, <2>2
<1>6. QED
  BY <1>4, <1>5

LEMMA EntryFields ==
  ASSUME IInv, NEW p \in 1 .. Len(layout)
  PROVE  /\ Entries[p].rva = layout[p].rva /\ Entries[p].raw = Bytes(p)
         /\ Entries[p].vsize = Larger(VirtualSize(sections[layout[p].name]), Bytes(p))
         /\ Entries[p].file = IF sections[layout[p].name].bss THEN 0 ELSE FileOffset(p)
<1>1. Entries[p] = EntryOf(p)
  BY EntriesAre
<1>2. QED
  BY <1>1 DEF EntryOf, Entry

LEMMA DirectoryFields ==
  ASSUME IInv, Synthetic, NEW p, p = Len(layout) + 1
  PROVE  /\ Entries[p].rva = RelocRva /\ Entries[p].raw = RelocBytes
         /\ Entries[p].vsize = Larger(RelocBytes, RelocBytes)
         /\ Entries[p].file = FileOffset(p)
<1>1. Entries[p] = Directory
  BY EntriesAre
<1>2. QED
  BY <1>1 DEF Directory, Entry

LEMMA LayoutEnds ==
  ASSUME IInv, SectionsKnown, layout # <<>>
  PROVE  /\ Len(layout) \in 1 .. Len(layout) /\ LayoutEnd = EndOf(Len(layout)) /\ LayoutEnd \in Nat
         /\ RelocRva \in Nat /\ LayoutEnd <= RelocRva /\ RelocRva % SectionAlign = 0
<1>1. Len(layout) \in Nat /\ DOMAIN layout = 1 .. Len(layout) /\ Len(layout) \in 1 .. Len(layout)
  BY DEF IInv, LayoutOK
<1>2. LayoutEnd = EndOf(Len(layout))
  BY DEF LayoutEnd, EndOf
<1>3. EndOf(Len(layout)) \in Nat
  BY <1>1, PlacedSections
<1>4. PICK x \in Nat : x = LayoutEnd
  BY <1>2, <1>3
<1>5. AlignUp(x, SectionAlign) \in Nat /\ x <= AlignUp(x, SectionAlign)
      /\ AlignUp(x, SectionAlign) % SectionAlign = 0
  BY LinkerAssumption, RoundsUp
<1>6. QED
  BY <1>1, <1>2, <1>4, <1>5 DEF RelocRva

(* What an entry is, whatever section it is for.                           *)
LEMMA EntryTypes ==
  ASSUME IInv, SectionsKnown, layout # <<>>, NEW p \in DOMAIN Entries
  PROVE  /\ Entries[p].rva \in Nat /\ Entries[p].vsize \in Nat /\ Entries[p].raw \in Nat
         /\ Entries[p].raw <= Entries[p].vsize /\ Entries[p].file % FileAlign = 0
         /\ p \in 1 .. Len(layout) \/ (Synthetic /\ p = Len(layout) + 1)
<1>1. Len(layout) \in Nat /\ DOMAIN layout = 1 .. Len(layout)
  BY HeadersType
<1>2. p \in 1 .. Len(layout) \/ (Synthetic /\ p = Len(layout) + 1)
  <2>1. CASE Synthetic
    BY <1>1, <2>1, EntriesAre
  <2>2. CASE ~Synthetic
    <3>1. (IF Synthetic THEN 1 ELSE 0) = 0
      BY <2>2, Zenon
    <3>2. QED
      BY <1>1, <3>1, EntriesAre
  <2>3. QED
    BY <2>1, <2>2
<1>3. CASE p \in 1 .. Len(layout)
  <2>1. /\ Entries[p].rva = layout[p].rva /\ Entries[p].raw = Bytes(p)
        /\ Entries[p].vsize = Larger(VirtualSize(sections[layout[p].name]), Bytes(p))
        /\ Entries[p].file = IF sections[layout[p].name].bss THEN 0 ELSE FileOffset(p)
    BY <1>3, EntryFields
  <2>2. /\ layout[p].rva \in Nat /\ Bytes(p) \in Nat
        /\ VirtualSize(sections[layout[p].name]) \in Nat
    BY <1>1, <1>3, PlacedSections
  <2>3. FileOffset(p) % FileAlign = 0 /\ 0 % FileAlign = 0
    BY <1>3, FileOffsets, LinkerAssumption
  <2>4. QED
    BY <1>2, <2>1, <2>2, <2>3 DEF Larger
<1>4. CASE Synthetic /\ p = Len(layout) + 1
  <2>1. /\ Entries[p].rva = RelocRva /\ Entries[p].raw = RelocBytes
        /\ Entries[p].vsize = Larger(RelocBytes, RelocBytes)
        /\ Entries[p].file = FileOffset(Len(layout) + 1)
    BY <1>4, DirectoryFields
  <2>2. RelocRva \in Nat /\ RelocBytes \in Nat /\ Len(layout) \in 1 .. Len(layout)
    BY LayoutEnds, RelocBytesType DEF SectionsKnown
  <2>3. FileOffset(Len(layout) + 1) % FileAlign = 0
    BY <2>2, FileOffsets
  <2>4. QED
    BY <1>2, <2>1, <2>2, <2>3 DEF Larger
<1>5. QED
  BY <1>2, <1>3, <1>4

(* The size of the image is enough for every section.                      *)
LEMMA SizeCovers ==
  ASSUME IInv, SectionsKnown, layout # <<>>
  PROVE  /\ ImageSize(Entries) \in Nat
         /\ \A p \in DOMAIN Entries : Entries[p].rva + Entries[p].vsize <= ImageSize(Entries)
<1> DEFINE end == [p \in DOMAIN Entries |-> Entries[p].rva + Entries[p].vsize]
           ends == {Entries[p].rva + Entries[p].vsize : p \in DOMAIN Entries}
<1>1. PICK m \in Nat \ {0} : DOMAIN Entries = 1 .. m
  <2>1. Len(layout) \in Nat \ {0}
    BY LayoutEnds, HeadersType
  <2>2. PICK d \in {0, 1} : d = IF Synthetic THEN 1 ELSE 0
    OBVIOUS
  <2>3. DOMAIN Entries = 1 .. Len(layout) + d /\ Len(layout) + d \in Nat \ {0}
    BY <2>1, <2>2, EntriesAre
  <2>4. QED
    BY <2>3
<1>2. end \in [1 .. m -> Nat]
  BY <1>1, EntryTypes
<1>3. PICK p \in 1 .. m : \A q \in 1 .. m : end[q] <= end[p]
  <2> HIDE DEF end
  <2>1. QED
    BY <1>2, HighestOf
<1>4. end[p] \in ends /\ \A y \in ends : y <= end[p]
  BY <1>1, <1>3
<1>5. \A q \in DOMAIN Entries : end[q] \in ends /\ end[q] = Entries[q].rva + Entries[q].vsize
  OBVIOUS
<1>6. Highest(ends) \in ends /\ \A y \in ends : y <= Highest(ends)
  <2> HIDE DEF end, ends
  <2>1. \E x \in ends : \A y \in ends : y <= x
    BY <1>4
  <2>2. QED
    BY <2>1 DEF Highest
<1>7. ends \subseteq Nat
  BY EntryTypes
<1>8. ImageSize(Entries) = AlignUp(Highest(ends), SectionAlign)
  BY DEF ImageSize
<1> HIDE DEF end, ends
<1>9. PICK x \in Nat : x = Highest(ends)
  BY <1>6, <1>7
<1>10. AlignUp(x, SectionAlign) \in Nat /\ x <= AlignUp(x, SectionAlign)
  BY LinkerAssumption, RoundsUp
<1>11. ASSUME NEW q \in DOMAIN Entries PROVE Entries[q].rva + Entries[q].vsize <= ImageSize(Entries)
  <2>1. PICK y \in Nat : y = Entries[q].rva + Entries[q].vsize /\ y \in ends
    BY <1>5, <1>7
  <2>2. y <= x
    BY <1>6, <1>9, <2>1
  <2>3. QED
    BY <1>8, <1>9, <1>10, <2>1, <2>2
<1>12. QED
  BY <1>8, <1>9, <1>10, <1>11

(***************************************************************************)
(* The images that the writer writes.                                      *)
(***************************************************************************)
LEMMA WriterInvariance == PESpec => [](IInv /\ SectionsKnown /\ PlacedKnown)
<1>1. PEInit => Init
  BY DEF PEInit
<1>2. [PENext]_pvars => [Next]_vars
  BY DEF PENext, pvars, Write
<1>3. PESpec => Spec
  BY <1>1, <1>2, PTL DEF PESpec, Spec
<1>4. QED
  BY <1>3, Invariance, PlacedInvariance, PTL

LEMMA WriteOf ==
  ASSUME IInv, SectionsKnown, Write
  PROVE  /\ layout # <<>> /\ image'.entries = Entries /\ image'.headers = HeadersEnd
         /\ image'.size = ImageSize(Entries) /\ HeadersEnd \in Nat
         /\ Len(layout) \in Nat \ {0} /\ DOMAIN layout = 1 .. Len(layout)
  BY HeadersType DEF Write

(* Every image is of the declared types: sections begin on pages, and      *)
(* their bytes at multiples of the file alignment.                         *)
THEOREM WriterTyping ==
  ASSUME AlignmentsNest
  PROVE  PESpec => []PETypeOK
<1>1. PEInit => PETypeOK
  BY DEF PEInit, NoImage, PETypeOK, entry
<1>2. ASSUME IInv, SectionsKnown, PlacedKnown, Write PROVE PETypeOK'
  <2>1. /\ layout # <<>> /\ image'.entries = Entries /\ image'.headers = HeadersEnd
        /\ image'.size = ImageSize(Entries) /\ HeadersEnd \in Nat
        /\ DOMAIN layout = 1 .. Len(layout)
    BY <1>2, WriteOf
  <2>2. ASSUME NEW p \in DOMAIN Entries
        PROVE  /\ Entries[p].rva \in Nat /\ Entries[p].raw \in 0 .. Entries[p].vsize
               /\ Entries[p].rva % SectionAlign = 0 /\ Entries[p].file % FileAlign = 0
    <3>1. /\ Entries[p].rva \in Nat /\ Entries[p].vsize \in Nat /\ Entries[p].raw \in Nat
          /\ Entries[p].raw <= Entries[p].vsize /\ Entries[p].file % FileAlign = 0
          /\ p \in 1 .. Len(layout) \/ (Synthetic /\ p = Len(layout) + 1)
      BY <1>2, <2>1, EntryTypes
    <3>2. CASE p \in 1 .. Len(layout)
      <4>1. Entries[p].rva = layout[p].rva
        BY <1>2, <3>2, EntryFields
      <4>2. layout[p].rva % SectionAlign = 0
        BY <1>2, <2>1, <3>2 DEF PlacedKnown, AlignedOK
      <4>3. QED
        BY <3>1, <4>1, <4>2
    <3>3. CASE Synthetic /\ p = Len(layout) + 1
      <4>1. Entries[p].rva = RelocRva
        BY <1>2, <3>3, DirectoryFields
      <4>2. RelocRva % SectionAlign = 0
        BY <1>2, <2>1, LayoutEnds
      <4>3. QED
        BY <3>1, <4>1, <4>2
    <3>4. QED
      BY <3>1, <3>2, <3>3
  <2>3. ImageSize(Entries) \in Nat
    BY <1>2, <2>1, SizeCovers
  <2>4. QED
    BY <2>1, <2>2, <2>3 DEF PETypeOK, entry
<1>3. PETypeOK /\ UNCHANGED image => PETypeOK'
  BY DEF PETypeOK, entry
<1>4. IInv /\ SectionsKnown /\ PlacedKnown /\ PETypeOK /\ [PENext]_pvars => PETypeOK'
  BY <1>2, <1>3 DEF PENext, pvars
<1>5. QED
  BY <1>1, <1>4, WriterInvariance, PTL DEF PESpec

(* A section that has bytes is no zero-filled one, and has them where the  *)
(* loop has put them.                                                      *)
LEMMA BytesWritten ==
  ASSUME BssEmpty, IInv, SectionsKnown, layout # <<>>, NEW p \in DOMAIN Entries, Entries[p].raw > 0
  PROVE  /\ Entries[p].file = FileOffset(p) /\ FileOffset(p) \in Nat /\ HeadersEnd <= FileOffset(p)
         /\ p \in 1 .. Len(layout) + 1
         /\ p \in 1 .. Len(layout) => Entries[p].raw = Bytes(p) /\ ~sections[layout[p].name].bss
<1>1. Len(layout) \in Nat \ {0} /\ DOMAIN layout = 1 .. Len(layout)
  BY HeadersType, LayoutEnds
<1>2. CASE p \in 1 .. Len(layout)
  <2>1. /\ Entries[p].raw = Bytes(p)
        /\ Entries[p].file = IF sections[layout[p].name].bss THEN 0 ELSE FileOffset(p)
    BY <1>2, EntryFields
  <2>2. ASSUME sections[layout[p].name].bss PROVE FALSE
    <3>1. layout[p].name \in DOMAIN sections
      BY <1>1, <1>2, PlacedSections
    <3>2. PICK t \in PoolParts : t.bss /\ t.name = layout[p].name
      BY <2>2, <3>1 DEF SectionsKnown, BssOK
    <3>3. sections[layout[p].name].raw = 0 /\ layout[p].name # ".reloc"
      BY <3>1, <3>2 DEF SectionsKnown, BssOK, BssEmpty
    <3>4. QED
      BY <2>1, <3>3 DEF Bytes
  <2>3. QED
    BY <1>1, <1>2, <2>1, <2>2, FileOffsets
<1>3. CASE Synthetic /\ p = Len(layout) + 1
  <2>1. Entries[p].file = FileOffset(p)
    BY <1>3, DirectoryFields
  <2>2. Len(layout) \in 1 .. Len(layout)
    BY <1>1
  <2>3. QED
    BY <1>1, <1>3, <2>1, <2>2, FileOffsets
<1>4. QED
  BY <1>2, <1>3, EntryTypes

(* build: the bytes of every section are in the file behind the headers,   *)
(* and no two sections share any.                                          *)
THEOREM BytesKept ==
  ASSUME BssEmpty
  PROVE  PESpec => []RawKept
<1>1. PEInit => RawKept
  BY DEF PEInit, NoImage, RawKept, entry
<1>2. ASSUME IInv, SectionsKnown, PlacedKnown, Write PROVE RawKept'
  <2>1. /\ layout # <<>> /\ image'.entries = Entries /\ image'.headers = HeadersEnd
        /\ Len(layout) \in Nat \ {0}
    BY <1>2, WriteOf
  <2>2. ASSUME NEW p \in DOMAIN Entries, Entries[p].raw > 0
        PROVE  HeadersEnd <= Entries[p].file
    BY <1>2, <2>1, <2>2, BytesWritten
  <2>3. ASSUME NEW p \in DOMAIN Entries, NEW q \in DOMAIN Entries, p < q,
               Entries[p].raw > 0, Entries[q].raw > 0
        PROVE  Entries[p].file + Entries[p].raw <= Entries[q].file
    <3>1. /\ Entries[p].file = FileOffset(p) /\ p \in 1 .. Len(layout) + 1
          /\ p \in 1 .. Len(layout) => Entries[p].raw = Bytes(p) /\ ~sections[layout[p].name].bss
      BY <1>2, <2>1, <2>3, BytesWritten
    <3>2. Entries[q].file = FileOffset(q) /\ q \in 1 .. Len(layout) + 1
      BY <1>2, <2>1, <2>3, BytesWritten
    <3>3. p \in 1 .. Len(layout)
      BY <2>1, <2>3, <3>1, <3>2
    <3>4. QED
      BY <1>2, <2>3, <3>1, <3>2, <3>3, FileOffsets
  <2>4. \A p \in DOMAIN Entries : p \in Nat
    BY <1>2, <2>1, EntryTypes
  <2>5. QED
    <3>1. ASSUME NEW p \in DOMAIN Entries, NEW q \in DOMAIN Entries, p # q,
                 Entries[p].raw > 0, Entries[q].raw > 0
          PROVE  Apart(Entries[p].file, Entries[p].raw, Entries[q].file, Entries[q].raw)
      <4>1. p < q \/ q < p
        BY <2>4, <3>1
      <4>2. QED
        BY <2>3, <3>1, <4>1 DEF Apart
    <3>2. QED
      BY <2>1, <2>2, <3>1 DEF RawKept, entry, Apart
<1>3. RawKept /\ UNCHANGED image => RawKept'
  BY DEF RawKept, entry
<1>4. IInv /\ SectionsKnown /\ PlacedKnown /\ RawKept /\ [PENext]_pvars => RawKept'
  BY <1>2, <1>3 DEF PENext, pvars
<1>5. QED
  BY <1>1, <1>4, WriterInvariance, PTL DEF PESpec

(* A section that another one follows is as large as the linker planned.   *)
LEMMA PlannedSize ==
  ASSUME RelocLast, IInv, SectionsKnown, PlacedKnown, layout # <<>>,
         NEW p \in DOMAIN Entries, NEW q \in DOMAIN Entries, p < q
  PROVE  /\ p \in 1 .. Len(layout) /\ layout[p].name # ".reloc"
         /\ Entries[p].rva = layout[p].rva
         /\ Entries[p].vsize = VirtualSize(sections[layout[p].name])
         /\ Entries[p].rva + Entries[p].vsize = EndOf(p) /\ EndOf(p) \in Nat
<1>1. Len(layout) \in Nat \ {0} /\ DOMAIN layout = 1 .. Len(layout)
  BY HeadersType, LayoutEnds
<1>2. /\ p \in 1 .. Len(layout) \/ (Synthetic /\ p = Len(layout) + 1)
      /\ q \in 1 .. Len(layout) \/ (Synthetic /\ q = Len(layout) + 1)
  BY EntryTypes
<1>3. p \in 1 .. Len(layout) /\ (p # Len(layout) \/ Synthetic)
  BY <1>1, <1>2
<1>4. layout[p].name # ".reloc"
  <2>1. CASE p # Len(layout)
    BY <1>1, <1>3, <2>1 DEF PlacedKnown, OwnLast
  <2>2. CASE Synthetic
    BY <1>1, <1>3, <2>2 DEF Synthetic, HasOwn
  <2>3. QED
    BY <1>3, <2>1, <2>2
<1>5. /\ Entries[p].rva = layout[p].rva
      /\ Entries[p].vsize = Larger(VirtualSize(sections[layout[p].name]), Bytes(p))
  BY <1>3, EntryFields
<1>6. /\ VirtualSize(sections[layout[p].name]) \in Nat /\ EndOf(p) \in Nat
      /\ sections[layout[p].name].raw \in Nat
      /\ sections[layout[p].name].raw <= VirtualSize(sections[layout[p].name])
  BY <1>1, <1>3, PlacedSections
<1>7. Bytes(p) = sections[layout[p].name].raw
  BY <1>4 DEF Bytes
<1>8. Entries[p].vsize = VirtualSize(sections[layout[p].name])
  BY <1>5, <1>6, <1>7 DEF Larger
<1>9. QED
  BY <1>3, <1>4, <1>5, <1>6, <1>8 DEF EndOf

LEMMA HeadersBefore ==
  ASSUME HeadersFit, IInv, PlacedKnown
  PROVE  HeadersEnd <= FirstRva
<1>1. Len(layout) \in Nat /\ Len(layout) <= Len(SectionOrder) /\ Len(SectionOrder) \in Nat
  BY HeadersType, LinkerAssumption DEF PlacedKnown, OrderOK
<1>2. PICK d \in {0, 1} : d = IF Synthetic THEN 1 ELSE 0
  OBVIOUS
<1>3. PICK c \in 0 .. Len(SectionOrder) + 1 : c = Len(layout) + d
  BY <1>1, <1>2
<1>4. HeadersEnd = AlignUp(HeaderBytes + SectionHeaderBytes * c, FileAlign)
  BY <1>2, <1>3, HeadersType
<1>5. QED
  BY <1>4 DEF HeadersFit

(* build and plan_layout: the sections of the image do not overlap, lie    *)
(* within its size, and are all behind the headers.                        *)
THEOREM ImageApart ==
  ASSUME RelocLast, HeadersFit
  PROVE  PESpec => []EntriesApart
<1>1. PEInit => EntriesApart
  BY DEF PEInit, NoImage, EntriesApart, entry
<1>2. ASSUME IInv, SectionsKnown, PlacedKnown, Write PROVE EntriesApart'
  <2>1. /\ layout # <<>> /\ image'.entries = Entries /\ image'.headers = HeadersEnd
        /\ image'.size = ImageSize(Entries) /\ HeadersEnd \in Nat
        /\ Len(layout) \in Nat \ {0} /\ DOMAIN layout = 1 .. Len(layout)
    BY <1>2, WriteOf
  <2>2. /\ RelocRva \in Nat /\ EndOf(Len(layout)) <= RelocRva
        /\ Len(layout) \in 1 .. Len(layout) /\ EndOf(Len(layout)) \in Nat
    BY <1>2, <2>1, LayoutEnds
  <2>3. ASSUME NEW p \in 1 .. Len(layout)
        PROVE  /\ FirstRva <= layout[p].rva /\ layout[p].rva \in Nat /\ EndOf(p) \in Nat
               /\ layout[p].rva <= EndOf(p)
    BY <1>2, <2>1, PlacedSections DEF PlacedKnown, OrderOK, EndOf
  <2>4. ASSUME NEW p \in DOMAIN Entries PROVE HeadersEnd <= Entries[p].rva
    <3>1. HeadersEnd <= FirstRva /\ FirstRva \in Nat
      BY <1>2, HeadersBefore, FirstRvaType
    <3>2. CASE p \in 1 .. Len(layout)
      <4>1. Entries[p].rva = layout[p].rva
        BY <1>2, <3>2, EntryFields
      <4>2. QED
        BY <2>1, <2>3, <3>1, <3>2, <4>1
    <3>3. CASE Synthetic /\ p = Len(layout) + 1
      <4>1. Entries[p].rva = RelocRva
        BY <1>2, <3>3, DirectoryFields
      <4>2. FirstRva <= layout[Len(layout)].rva /\ layout[Len(layout)].rva \in Nat
            /\ layout[Len(layout)].rva <= EndOf(Len(layout))
        BY <2>2, <2>3
      <4>3. QED
        BY <2>1, <2>2, <3>1, <4>1, <4>2
    <3>4. QED
      BY <1>2, <2>1, <3>2, <3>3, EntryTypes
  <2>5. ASSUME NEW p \in DOMAIN Entries, NEW q \in DOMAIN Entries, p < q
        PROVE  Entries[p].rva + Entries[p].vsize <= Entries[q].rva
    <3>1. /\ p \in 1 .. Len(layout)
          /\ Entries[p].rva + Entries[p].vsize = EndOf(p) /\ EndOf(p) \in Nat
      BY <1>2, <2>1, <2>5, PlannedSize
    <3>2. \A l \in 1 .. Len(layout) : p < l => EndOf(p) <= layout[l].rva
      BY <1>2, <2>1, <3>1 DEF IInv, LayoutOK, EndOf
    <3>3. CASE q \in 1 .. Len(layout)
      <4>1. Entries[q].rva = layout[q].rva
        BY <1>2, <3>3, EntryFields
      <4>2. QED
        BY <2>5, <3>1, <3>2, <3>3, <4>1
    <3>4. CASE Synthetic /\ q = Len(layout) + 1
      <4>1. Entries[q].rva = RelocRva
        BY <1>2, <3>4, DirectoryFields
      <4>2. EndOf(p) <= EndOf(Len(layout))
        <5>1. CASE p = Len(layout)
          BY <2>2, <5>1
        <5>2. CASE p # Len(layout)
          <6>1. p < Len(layout)
            BY <2>1, <3>1, <5>2
          <6>2. EndOf(p) <= layout[Len(layout)].rva
            BY <2>2, <3>2, <6>1
          <6>3. QED
            BY <2>2, <2>3, <3>1, <6>2
        <5>3. QED
          BY <5>1, <5>2
      <4>3. QED
        BY <2>2, <3>1, <4>1, <4>2
    <3>5. QED
      BY <1>2, <2>1, <3>3, <3>4, EntryTypes
  <2>6. ASSUME NEW p \in DOMAIN Entries PROVE Entries[p].rva + Entries[p].vsize <= ImageSize(Entries)
    BY <1>2, <2>1, SizeCovers
  <2>7. \A p \in DOMAIN Entries : p \in Nat
    BY <1>2, <2>1, EntryTypes
  <2>8. ASSUME NEW p \in DOMAIN Entries, NEW q \in DOMAIN Entries, q # p
        PROVE  Apart(Entries[p].rva, Entries[p].vsize, Entries[q].rva, Entries[q].vsize)
    <3>1. p < q \/ q < p
      BY <2>7, <2>8
    <3>2. QED
      BY <2>5, <3>1 DEF Apart
  <2>9. QED
    BY <2>1, <2>4, <2>6, <2>8 DEF EntriesApart, entry, Apart
<1>3. EntriesApart /\ UNCHANGED image => EntriesApart'
  BY DEF EntriesApart, entry
<1>4. IInv /\ SectionsKnown /\ PlacedKnown /\ EntriesApart /\ [PENext]_pvars => EntriesApart'
  BY <1>2, <1>3 DEF PENext, pvars
<1>5. QED
  BY <1>1, <1>4, WriterInvariance, PTL DEF PESpec

(* plan_layout and build: every section begins on the page where the one   *)
(* before it ends.                                                         *)
THEOREM NoHoles ==
  ASSUME AlignmentsSmall, NoEmpty, RelocLast
  PROVE  PESpec => []SectionsTile
<1>1. PEInit => SectionsTile
  BY DEF PEInit, NoImage, SectionsTile, entry
<1>2. ASSUME IInv, SectionsKnown, PlacedKnown, Write PROVE SectionsTile'
  <2>1. /\ layout # <<>> /\ image'.entries = Entries
        /\ Len(layout) \in Nat \ {0} /\ DOMAIN layout = 1 .. Len(layout)
    BY <1>2, WriteOf
  <2>2. TiledOK /\ FilledOK
    BY <1>2 DEF PlacedKnown, SectionsKnown
  <2>3. ASSUME NEW p \in DOMAIN Entries PROVE Entries[p].vsize > 0 /\ p \in Nat
    <3>1. p \in 1 .. Len(layout) \/ (Synthetic /\ p = Len(layout) + 1)
      BY <1>2, <2>1, EntryTypes
    <3>2. CASE p \in 1 .. Len(layout)
      <4>1. /\ VirtualSize(sections[layout[p].name]) \in Nat /\ Bytes(p) \in Nat
            /\ layout[p].name \in DOMAIN sections
        BY <1>2, <2>1, <3>2, PlacedSections
      <4>2. VirtualSize(sections[layout[p].name]) > 0
        BY <2>2, <4>1 DEF FilledOK
      <4>3. Entries[p].vsize = Larger(VirtualSize(sections[layout[p].name]), Bytes(p))
        BY <1>2, <3>2, EntryFields
      <4>4. QED
        BY <3>2, <4>1, <4>2, <4>3 DEF Larger
    <3>3. CASE Synthetic /\ p = Len(layout) + 1
      <4>1. Entries[p].vsize = Larger(RelocBytes, RelocBytes)
        BY <1>2, <3>3, DirectoryFields
      <4>2. QED
        BY <2>1, <3>3, <4>1 DEF Synthetic, Larger
    <3>4. QED
      BY <3>1, <3>2, <3>3
  <2>4. ASSUME NEW p \in DOMAIN Entries, p + 1 \in DOMAIN Entries
        PROVE  Entries[p + 1].rva = AlignUp(Entries[p].rva + Entries[p].vsize, SectionAlign)
    <3>1. p < p + 1
      BY <2>3
    <3>2. /\ p \in 1 .. Len(layout)
          /\ Entries[p].rva + Entries[p].vsize = EndOf(p)
      BY <1>2, <2>1, <2>4, <3>1, PlannedSize
    <3>3. CASE p + 1 \in 1 .. Len(layout)
      <4>1. Entries[p + 1].rva = layout[p + 1].rva
        BY <1>2, <3>3, EntryFields
      <4>2. layout[p + 1].rva = AlignUp(EndOf(p), SectionAlign)
        BY <2>1, <2>2, <3>2, <3>3 DEF TiledOK
      <4>3. QED
        BY <3>2, <4>1, <4>2
    <3>4. CASE Synthetic /\ p + 1 = Len(layout) + 1
      <4>1. Entries[p + 1].rva = RelocRva
        BY <1>2, <3>4, DirectoryFields
      <4>2. p = Len(layout)
        BY <2>1, <3>2, <3>4
      <4>3. RelocRva = AlignUp(EndOf(Len(layout)), SectionAlign)
        BY <1>2, <2>1, LayoutEnds DEF RelocRva
      <4>4. QED
        BY <3>2, <4>1, <4>2, <4>3
    <3>5. QED
      BY <1>2, <2>1, <2>4, <3>3, <3>4, EntryTypes
  <2>5. ASSUME NEW p \in DOMAIN Entries, NEW q \in DOMAIN Entries, p < q,
               \A m \in DOMAIN Entries : m <= p \/ q <= m
        PROVE  q = p + 1
    <3>1. PICK d \in {0, 1} : d = IF Synthetic THEN 1 ELSE 0
      OBVIOUS
    <3>2. DOMAIN Entries = 1 .. Len(layout) + d
      BY <1>2, <3>1, EntriesAre
    <3>3. p + 1 \in DOMAIN Entries
      BY <2>1, <2>5, <3>1, <3>2
    <3>4. p + 1 <= p \/ q <= p + 1
      BY <2>5, <3>3
    <3>5. QED
      BY <2>3, <2>5, <3>4
  <2>6. QED
    BY <2>1, <2>3, <2>4, <2>5 DEF SectionsTile, entry
<1>3. SectionsTile /\ UNCHANGED image => SectionsTile'
  BY DEF SectionsTile, entry
<1>4. IInv /\ SectionsKnown /\ PlacedKnown /\ SectionsTile /\ [PENext]_pvars => SectionsTile'
  BY <1>2, <1>3 DEF PENext, pvars
<1>5. QED
  BY <1>1, <1>4, WriterInvariance, PTL DEF PESpec

(***************************************************************************)
(* Relinking.  link() at a base, on a record of its variables: At.         *)
(***************************************************************************)
At(objs, base, st) ==
  INSTANCE Linker WITH objects <- objs, image_base <- base, phase <- st.phase,
    k <- st.at[1], n <- st.at[2], sections <- st.sections, offsets <- st.offsets, table <- st.table,
    slots <- st.slots, layout <- st.layout, rva <- st.ends[1], file_off <- st.ends[2],
    result <- NoResult, before <- NoResult, links <- 0

State(ph, at, secs, offs, tab, iat, lay, ends) ==
  [phase |-> ph, at |-> at, sections |-> secs, offsets |-> offs, table |-> tab, slots |-> iat,
   layout |-> lay, ends |-> ends]
Now(ph) == State(ph, <<k, n>>, sections, offsets, table, slots, layout, <<rva, file_off>>)
Begin == State("sections", <<1, 1>>, <<>>, <<>>, <<>>, <<>>, <<>>, <<0, 0>>)

(* The step that link() takes of itself, as long as it raises nothing.     *)
AfterSections(objs, st) ==
  LET i == st.at[1]
      m == st.at[2]
  IN  IF i \notin DOMAIN objs
        THEN State("symbols", <<1, 1>>, st.sections, st.offsets,
                   [a \in DOMAIN Absolutes |-> AbsoluteEntry(a)], st.slots, st.layout, st.ends)
      ELSE IF m \notin DOMAIN objs[i].sections
        THEN State("sections", <<i + 1, 1>>, st.sections, st.offsets, st.table, st.slots, st.layout,
                   st.ends)
      ELSE LET s == objs[i].sections[m]
               dst == IF s.name \in DOMAIN st.sections THEN st.sections[s.name] ELSE Fresh(s)
               start == Start(dst, s)
           IN  State("sections", <<i, m + 1>>,
                     Put(st.sections, s.name, At(objs, 0, st)!Merged(dst, s, start)),
                     Put(st.offsets, <<i, s.name>>, start), st.table, st.slots, st.layout, st.ends)

AfterSymbols(objs, st) ==
  LET i == st.at[1]
      m == st.at[2]
      Go(ph, at, tab) ==
        State(ph, at, st.sections, st.offsets, tab, st.slots, st.layout, st.ends)
  IN  IF i \notin DOMAIN objs THEN Go("iat", st.at, st.table)
      ELSE IF m \notin DOMAIN objs[i].symbols THEN Go("symbols", <<i + 1, 1>>, st.table)
      ELSE LET y == objs[i].symbols[m]
           IN  Go("symbols", <<i, m + 1>>,
                  IF At(objs, 0, st)!Enters(y) THEN Put(st.table, y.name, At(objs, 0, st)!Moved(y))
                  ELSE st.table)

AfterIat(objs, st) ==
  LET imports == At(objs, 0, st)!Imports
      idata == At(objs, 0, st)!Idata
      start == AlignUp(idata.raw, 8)
      Go(secs, iat) ==
        State("layout", st.at, secs, st.offsets, st.table, iat, st.layout,
              <<AlignUp(HeadersSize, SectionAlign), AlignUp(HeadersSize, FileAlign)>>)
  IN  IF imports = {} THEN Go(st.sections, st.slots)
      ELSE Go(Put(st.sections, ".idata", [idata EXCEPT !.raw = start + SlotSize * Cardinality(imports)]),
              [y \in {ImportOrder[i] : i \in imports} |->
                 start + SlotSize *
                   Cardinality({j \in imports : j < CHOOSE i \in imports : ImportOrder[i] = y})])

AfterPlaced(objs, st) ==
  LET unplaced == At(objs, 0, st)!Unplaced
      i == CHOOSE i \in unplaced : \A j \in unplaced : i <= j
      s == st.sections[SectionOrder[i]]
      at == AlignUp(st.ends[1], Larger(SectionAlign, s.align))
      Go(ph, lay, ends) ==
        State(ph, st.at, st.sections, st.offsets, st.table, st.slots, lay, ends)
  IN  IF unplaced = {} THEN Go("apply", st.layout, st.ends)
      ELSE Go("layout",
              Append(st.layout, [name |-> SectionOrder[i], rva |-> at,
                                 file |-> IF s.bss THEN 0 ELSE st.ends[2]]),
              <<at + Room(s),
                IF s.bss THEN st.ends[2] ELSE st.ends[2] + AlignUp(s.raw, FileAlign)>>)

After(objs, st) ==
  CASE st.phase = "sections" -> AfterSections(objs, st)
    [] st.phase = "symbols" -> AfterSymbols(objs, st)
    [] st.phase = "iat" -> AfterIat(objs, st)
    [] st.phase = "layout" -> AfterPlaced(objs, st)

Working == {"sections", "symbols", "iat", "layout", "apply"}

LEMMA NowFields ==
  ASSUME NEW ph
  PROVE  /\ Now(ph).phase = ph /\ Now(ph).at = <<k, n>> /\ Now(ph).sections = sections
         /\ Now(ph).offsets = offsets /\ Now(ph).table = table /\ Now(ph).slots = slots
         /\ Now(ph).layout = layout /\ Now(ph).ends = <<rva, file_off>>
         /\ Now(ph).at[1] = k /\ Now(ph).at[2] = n
         /\ Now(ph).ends[1] = rva /\ Now(ph).ends[2] = file_off
  BY DEF Now, State

LEMMA NowNext ==
  Now(phase)' = State(phase', <<k', n'>>, sections', offsets', table', slots', layout',
                      <<rva', file_off'>>)
  BY DEF Now, State

LEMMA MergeFollows ==
  ASSUME MergeSection PROVE Now(phase)' = After(objects, Now(phase))
<1>1. PICK st : st = Now(phase)
  OBVIOUS
<1>2. ASSUME NEW dst, NEW s, NEW start
      PROVE  At(objects, 0, st)!Merged(dst, s, start) = Merged(dst, s, start)
  <2>1. st.at[1] = k
    BY <1>1, NowFields
  <2>2. \A a, b : At(objects, 0, st)!Larger(a, b) = Larger(a, b)
    BY DEF At!Larger, Larger
  <2>3. QED
    BY <2>1, <2>2, Zenon DEF At!Merged, Merged
<1>3. /\ st.phase = phase /\ st.at[1] = k /\ st.at[2] = n /\ st.sections = sections
      /\ st.offsets = offsets /\ st.table = table /\ st.slots = slots /\ st.layout = layout
      /\ st.ends = <<rva, file_off>>
  BY <1>1, NowFields
<1> DEFINE s == objects[k].sections[n]
           dst == IF s.name \in DOMAIN sections THEN sections[s.name] ELSE Fresh(s)
           start == Start(dst, s)
<1>4. /\ phase = "sections" /\ k \in DOMAIN objects /\ n \in DOMAIN objects[k].sections
      /\ sections' = Put(sections, s.name, Merged(dst, s, start))
      /\ offsets' = Put(offsets, <<k, s.name>>, start)
      /\ n' = n + 1 /\ UNCHANGED <<phase, k, table, slots, layout, rva, file_off>>
  BY DEF MergeSection
<1>5. AfterSections(objects, st) =
        State("sections", <<k, n + 1>>, Put(sections, s.name, Merged(dst, s, start)),
              Put(offsets, <<k, s.name>>, start), table, slots, layout, <<rva, file_off>>)
  BY <1>2, <1>3, <1>4 DEF AfterSections
<1>6. After(objects, st) = AfterSections(objects, st)
  BY <1>3, <1>4 DEF After
<1>7. QED
  BY <1>1, <1>4, <1>5, <1>6, NowNext

LEMMA SectionsFollow ==
  ASSUME NextSections PROVE Now(phase)' = After(objects, Now(phase))
<1>1. PICK st : st = Now(phase)
  OBVIOUS
<1>2. /\ st.phase = phase /\ st.at[1] = k /\ st.at[2] = n /\ st.sections = sections
      /\ st.offsets = offsets /\ st.table = table /\ st.slots = slots /\ st.layout = layout
      /\ st.ends = <<rva, file_off>>
  BY <1>1, NowFields
<1>3. After(objects, st) = AfterSections(objects, st)
  BY <1>2 DEF After, NextSections
<1>4. QED
  BY <1>1, <1>2, <1>3, NowNext DEF NextSections, AfterSections

LEMMA SymbolFollows ==
  ASSUME MergeSymbol, phase' \in Working PROVE Now(phase)' = After(objects, Now(phase))
<1>1. PICK st : st = Now(phase)
  OBVIOUS
<1>2. \A y : At(objects, 0, st)!Enters(y) = Enters(y) /\ At(objects, 0, st)!Moved(y) = Moved(y)
  BY <1>1, NowFields DEF At!Enters, Enters, At!Moved, Moved
<1>3. /\ st.phase = phase /\ st.at[1] = k /\ st.at[2] = n /\ st.sections = sections
      /\ st.offsets = offsets /\ st.table = table /\ st.slots = slots /\ st.layout = layout
      /\ st.ends = <<rva, file_off>>
  BY <1>1, NowFields
<1> DEFINE y == objects[k].symbols[n]
           new == IF Enters(y) THEN Put(table, y.name, Moved(y)) ELSE table
<1>4. /\ phase = "symbols" /\ k \in DOMAIN objects /\ n \in DOMAIN objects[k].symbols
      /\ table' = new
      /\ n' = n + 1 /\ UNCHANGED <<phase, k, sections, offsets, slots, layout, rva, file_off>>
  BY DEF MergeSymbol, Working
<1>5. AfterSymbols(objects, st) =
        State("symbols", <<k, n + 1>>, sections, offsets, new, slots, layout, <<rva, file_off>>)
  BY <1>2, <1>3, <1>4 DEF AfterSymbols
<1>6. After(objects, st) = AfterSymbols(objects, st)
  BY <1>3, <1>4 DEF After
<1>7. QED
  BY <1>1, <1>4, <1>5, <1>6, NowNext

LEMMA SymbolsFollow ==
  ASSUME NextSymbols PROVE Now(phase)' = After(objects, Now(phase))
<1>1. PICK st : st = Now(phase)
  OBVIOUS
<1>2. /\ st.phase = phase /\ st.at = <<k, n>> /\ st.at[1] = k /\ st.at[2] = n
      /\ st.sections = sections
      /\ st.offsets = offsets /\ st.table = table /\ st.slots = slots /\ st.layout = layout
      /\ st.ends = <<rva, file_off>>
  BY <1>1, NowFields
<1>3. After(objects, st) = AfterSymbols(objects, st)
  BY <1>2 DEF After, NextSymbols
<1>4. QED
  BY <1>1, <1>2, <1>3, NowNext DEF NextSymbols, AfterSymbols

LEMMA IatFollows ==
  ASSUME ReserveIat PROVE Now(phase)' = After(objects, Now(phase))
<1>1. PICK st : st = Now(phase)
  OBVIOUS
<1>2. At(objects, 0, st)!Imports = Imports /\ At(objects, 0, st)!Idata = Idata
  BY <1>1, NowFields DEF At!Imports, Imports, At!Idata, Idata
<1>3. /\ st.phase = phase /\ st.at = <<k, n>> /\ st.sections = sections
      /\ st.offsets = offsets /\ st.table = table /\ st.slots = slots /\ st.layout = layout
  BY <1>1, NowFields
<1> DEFINE start == AlignUp(Idata.raw, 8)
           iat == [y \in {ImportOrder[i] : i \in Imports} |->
                     start + SlotSize *
                       Cardinality({j \in Imports : j < CHOOSE i \in Imports : ImportOrder[i] = y})]
           secs == Put(sections, ".idata",
                       [Idata EXCEPT !.raw = start + SlotSize * Cardinality(Imports)])
           ends == <<AlignUp(HeadersSize, SectionAlign), AlignUp(HeadersSize, FileAlign)>>
<1>4. /\ phase = "iat" /\ phase' = "layout" /\ UNCHANGED <<k, n, offsets, table, layout>>
      /\ <<rva', file_off'>> = ends
      /\ IF Imports = {} THEN UNCHANGED <<sections, slots>> ELSE sections' = secs /\ slots' = iat
  BY DEF ReserveIat, SlotIndex
<1>5. AfterIat(objects, st) =
        State("layout", <<k, n>>, IF Imports = {} THEN sections ELSE secs, offsets, table,
              IF Imports = {} THEN slots ELSE iat, layout, ends)
  BY <1>2, <1>3 DEF AfterIat
<1>6. After(objects, st) = AfterIat(objects, st)
  BY <1>3, <1>4 DEF After
<1> HIDE DEF iat, secs, ends
<1>7. QED
  BY <1>1, <1>4, <1>5, <1>6, NowNext

First(i) ==
  LET name == SectionOrder[i]
      s == sections[name]
      at == AlignUp(rva, Larger(SectionAlign, s.align))
  IN  /\ \A j \in Unplaced : i <= j
      /\ layout' = Append(layout, [name |-> name, rva |-> at,
                                   file |-> IF s.bss THEN 0 ELSE file_off])
      /\ rva' = at + Room(s)
      /\ file_off' = IF s.bss THEN file_off ELSE file_off + AlignUp(s.raw, FileAlign)

LEMMA PlaceFollows ==
  ASSUME PlaceSection PROVE Now(phase)' = After(objects, Now(phase))
<1>0. PICK st : st = Now(phase)
  OBVIOUS
<1>1. At(objects, 0, st)!Unplaced = Unplaced
  BY <1>0, NowFields DEF At!Unplaced, Unplaced
<1>2. /\ st.phase = phase /\ st.at = <<k, n>> /\ st.sections = sections
      /\ st.offsets = offsets /\ st.table = table /\ st.slots = slots /\ st.layout = layout
      /\ st.ends[1] = rva /\ st.ends[2] = file_off
  BY <1>0, NowFields
<1>3. PICK i \in Unplaced : First(i)
  BY DEF PlaceSection, First
<1>4. Unplaced \subseteq Nat
  BY LinkerAssumption DEF Unplaced
<1>5. (CHOOSE l \in Unplaced : \A j \in Unplaced : l <= j) = i
  <2>1. \A j \in Unplaced : i <= j
    BY <1>3 DEF First
  <2>2. \A l \in Unplaced : (\A j \in Unplaced : l <= j) => l = i
    BY <1>4, <2>1
  <2>3. QED
    BY <2>1, <2>2
<1>6. AfterPlaced(objects, st) =
        State("layout", <<k, n>>, sections, offsets, table, slots, layout', <<rva', file_off'>>)
  <2>1. Unplaced # {}
    BY <1>3
  <2>2. QED
    BY <1>1, <1>2, <1>3, <1>5, <2>1 DEF AfterPlaced, First
<1>7. After(objects, st) = AfterPlaced(objects, st)
  BY <1>2 DEF After, PlaceSection
<1>8. QED
  BY <1>0, <1>6, <1>7, NowNext DEF PlaceSection

LEMMA BindFollows ==
  ASSUME Bind, phase' \in Working PROVE Now(phase)' = After(objects, Now(phase))
<1>0. PICK st : st = Now(phase)
  OBVIOUS
<1>1. At(objects, 0, st)!Unplaced = Unplaced
  BY <1>0, NowFields DEF At!Unplaced, Unplaced
<1>2. /\ st.phase = phase /\ st.at = <<k, n>> /\ st.sections = sections
      /\ st.offsets = offsets /\ st.table = table /\ st.slots = slots /\ st.layout = layout
      /\ st.ends = <<rva, file_off>>
  BY <1>0, NowFields
<1>3. /\ phase = "layout" /\ phase' = "apply" /\ Unplaced = {}
      /\ UNCHANGED <<k, n, sections, offsets, table, slots, layout, rva, file_off>>
  BY DEF Bind, Working
<1>4. After(objects, st) = AfterPlaced(objects, st)
  BY <1>2, <1>3 DEF After
<1>5. QED
  BY <1>0, <1>1, <1>2, <1>3, <1>4, NowNext DEF AfterPlaced

(* link() has come from its beginning to st.                               *)
Path(objs, h, t) ==
  /\ t \in Nat /\ h[0] = Begin
  /\ \A i \in 0 .. t - 1 : h[i].phase # "apply" /\ h[i + 1] = After(objs, h[i])
Reached(objs, st) == \E t : \E h : Path(objs, h, t) /\ h[t] = st

LEMMA BeginReached == \A objs : Reached(objs, Begin)
<1> SUFFICES ASSUME NEW objs PROVE Reached(objs, Begin)
  OBVIOUS
<1>1. PICK h : h = [i \in {0} |-> Begin]
  OBVIOUS
<1>2. Path(objs, h, 0) /\ h[0] = Begin
  BY <1>1 DEF Path
<1>3. QED
  BY <1>2 DEF Reached

LEMMA StepReached ==
  ASSUME NEW objs, NEW st, Reached(objs, st), st.phase # "apply"
  PROVE  Reached(objs, After(objs, st))
<1>a. PICK t : \E h : Path(objs, h, t) /\ h[t] = st
  BY DEF Reached
<1>1. PICK h : Path(objs, h, t) /\ h[t] = st
  BY <1>a
<1>2. t \in Nat
  BY <1>1 DEF Path
<1>3. PICK g : g = [i \in 0 .. t + 1 |-> IF i = t + 1 THEN After(objs, st) ELSE h[i]]
  OBVIOUS
<1>4. g[t + 1] = After(objs, st) /\ \A i \in 0 .. t : g[i] = h[i]
  BY <1>2, <1>3
<1>5. g[0] = Begin
  BY <1>1, <1>2, <1>4 DEF Path
<1>6. ASSUME NEW i \in 0 .. (t + 1) - 1
      PROVE  g[i].phase # "apply" /\ g[i + 1] = After(objs, g[i])
  <2>1. CASE i = t
    <3>1. g[i] = st /\ g[i + 1] = After(objs, st)
      BY <1>1, <1>2, <1>4, <2>1
    <3>2. QED
      BY <3>1
  <2>2. CASE i # t
    <3>1. i \in 0 .. t - 1 /\ i + 1 \in 0 .. t /\ i \in 0 .. t
      BY <1>2, <2>2
    <3>2. QED
      BY <1>1, <1>4, <3>1 DEF Path
  <2>3. QED
    BY <2>1, <2>2
<1>7. Path(objs, g, t + 1)
  BY <1>2, <1>5, <1>6 DEF Path
<1>8. QED
  BY <1>4, <1>7 DEF Reached

(* Two links of the same objects go the same way.                          *)
LEMMA OnePath ==
  ASSUME NEW objs, NEW h, NEW t, Path(objs, h, t), NEW g, NEW u, Path(objs, g, u)
  PROVE  \A i \in Nat : i <= t /\ i <= u => h[i] = g[i]
<1> DEFINE T == {i \in Nat : i <= t /\ i <= u => h[i] = g[i]}
<1>1. t \in Nat /\ u \in Nat
  BY DEF Path
<1>2. 0 \in T
  BY DEF Path
<1>3. ASSUME NEW m \in T PROVE m + 1 \in T
  <2>1. m \in Nat /\ m + 1 \in Nat
    OBVIOUS
  <2>2. ASSUME m + 1 <= t, m + 1 <= u PROVE h[m + 1] = g[m + 1]
    <3>1. m \in 0 .. t - 1 /\ m \in 0 .. u - 1 /\ m <= t /\ m <= u
      BY <1>1, <2>1, <2>2
    <3>2. h[m] = g[m]
      BY <3>1
    <3>3. h[m + 1] = After(objs, h[m]) /\ g[m + 1] = After(objs, g[m])
      BY <3>1 DEF Path
    <3>4. QED
      BY <3>2, <3>3
  <2>3. QED
    BY <2>1, <2>2
<1>4. T = Nat
  <2>1. T \in SUBSET Nat
    OBVIOUS
  <2> HIDE DEF T
  <2>2. QED
    BY <1>2, <1>3, <2>1, Induction
<1>5. QED
  BY <1>4

LEMMA OneEnd ==
  ASSUME NEW objs, NEW s, NEW st, Reached(objs, s), Reached(objs, st),
         s.phase = "apply", st.phase = "apply"
  PROVE  s = st
<1>a. PICK t : \E h : Path(objs, h, t) /\ h[t] = s
  BY DEF Reached
<1>1. PICK h : Path(objs, h, t) /\ h[t] = s
  BY <1>a
<1>b. PICK u : \E g : Path(objs, g, u) /\ g[u] = st
  BY DEF Reached
<1>2. PICK g : Path(objs, g, u) /\ g[u] = st
  BY <1>b
<1>3. t \in Nat /\ u \in Nat
  BY <1>1, <1>2 DEF Path
<1>4. \A i \in Nat : i <= t /\ i <= u => h[i] = g[i]
  BY <1>1, <1>2, OnePath
<1>5. ~(t < u)
  <2> SUFFICES ASSUME t < u PROVE FALSE
    OBVIOUS
  <2>1. t \in 0 .. u - 1 /\ h[t] = g[t]
    BY <1>3, <1>4
  <2>2. g[t].phase # "apply"
    BY <1>2, <2>1 DEF Path
  <2>3. QED
    BY <1>1, <2>1, <2>2
<1>6. ~(u < t)
  <2> SUFFICES ASSUME u < t PROVE FALSE
    OBVIOUS
  <2>1. u \in 0 .. t - 1 /\ h[u] = g[u]
    BY <1>3, <1>4
  <2>2. h[u].phase # "apply"
    BY <1>1, <2>1 DEF Path
  <2>3. QED
    BY <1>2, <2>1, <2>2
<1>7. t = u
  BY <1>3, <1>5, <1>6
<1>8. QED
  BY <1>1, <1>2, <1>3, <1>4, <1>7

(* What link() returns, and what it returned before, is made of a state    *)
(* that the objects alone decide.                                          *)
Moving(objs, base, st) ==
  {<<f[1], f[2].off>> : f \in {f \in At(objs, base, st)!Fields : NeedsBaseReloc(f[2].kind)}}
MadeOf(res, st) ==
  /\ Reached(res.objects, st) /\ st.phase = "apply"
  /\ res.contents = At(res.objects, res.base, st)!Relocated
  /\ res.base_relocs = Moving(res.objects, res.base, st)

RebaseOK ==
  /\ phase \in Working => Reached(objects, Now(phase))
  /\ phase = "linked" =>
       result.objects = objects /\ result.base = image_base /\ MadeOf(result, Now("apply"))
  /\ before = NoResult \/ \E st : MadeOf(before, st)

(* link() at the base where the linker stands is what it does.             *)
LEMMA AtHere ==
  ASSUME NEW ph, NEW st, st = Now(ph)
  PROVE  /\ At(objects, image_base, st)!Fields = Fields
         /\ At(objects, image_base, st)!Relocated = Relocated
<1>1. /\ st.sections = sections /\ st.table = table /\ st.slots = slots /\ st.layout = layout
  BY NowFields
<1>2. At(objects, image_base, st)!Fields = Fields
  BY <1>1 DEF At!Fields, Fields
<1>3. \A name : At(objects, image_base, st)!Placed(name) = Placed(name)
  BY <1>1 DEF At!Placed, Placed
<1>4. \A name : At(objects, image_base, st)!SectionVA(name) = SectionVA(name)
  BY <1>1, <1>3 DEF At!SectionVA, SectionVA
<1>5. \A name : At(objects, image_base, st)!Address(name) = Address(name)
  BY <1>1, <1>4 DEF At!Address, Address
<1>6. At(objects, image_base, st)!addresses = addresses
  BY <1>1, <1>5 DEF At!addresses, addresses
<1>7. \A kind : At(objects, image_base, st)!Width(kind) = Width(kind)
  BY DEF At!Width, Width
<1>8. \A s, r : At(objects, image_base, st)!Value(s, r) = Value(s, r)
  BY <1>3, <1>4, <1>6, <1>7 DEF At!Value, Value
<1>9. At(objects, image_base, st)!Relocated = Relocated
  BY <1>2, <1>8 DEF At!Relocated, Relocated
<1>10. QED
  BY <1>2, <1>9

LEMMA InitRebase == Init => RebaseOK
  BY DEF Init, RebaseOK, Working

LEMMA WorkReached ==
  ASSUME RebaseOK, Now(phase)' = After(objects, Now(phase)), objects' = objects,
         phase \in Working, phase # "apply"
  PROVE  Reached(objects, Now(phase))'
<1>1. Reached(objects, Now(phase)) /\ Now(phase).phase # "apply"
  BY NowFields DEF RebaseOK
<1>2. Reached(objects, After(objects, Now(phase)))
  BY <1>1, StepReached
<1>3. QED
  BY <1>2

LEMMA NextRebase == RebaseOK /\ [Next]_vars => RebaseOK'
<1> SUFFICES ASSUME RebaseOK, [Next]_vars PROVE RebaseOK'
  OBVIOUS
<1>1. CASE MergeSection \/ NextSections \/ MergeSymbol \/ NextSymbols \/ ReserveIat
           \/ PlaceSection \/ Bind
  <2>1. /\ phase \in Working /\ phase # "apply" /\ phase' # "linked"
        /\ UNCHANGED <<objects, image_base, before>>
    BY <1>1 DEF MergeSection, NextSections, MergeSymbol, NextSymbols, ReserveIat, PlaceSection,
                Bind, Working, inputs
  <2>2. phase' \in Working => Now(phase)' = After(objects, Now(phase))
    BY <1>1, MergeFollows, SectionsFollow, SymbolFollows, SymbolsFollow, IatFollows, PlaceFollows,
       BindFollows
  <2>3. phase' \in Working => Reached(objects, Now(phase))'
    BY <2>1, <2>2, WorkReached
  <2>4. (before = NoResult \/ \E st : MadeOf(before, st))'
    BY <2>1 DEF RebaseOK
  <2>5. QED
    BY <2>1, <2>3, <2>4 DEF RebaseOK
<1>2. CASE Apply
  <2>1. /\ phase = "apply" /\ phase' \in {"linked", "range"}
        /\ UNCHANGED <<objects, image_base, before, k, n, sections, offsets, table, slots, layout,
                       rva, file_off>>
    BY <1>2 DEF Apply, inputs
  <2>2. (before = NoResult \/ \E st : MadeOf(before, st))'
    BY <2>1 DEF RebaseOK
  <2>3. Reached(objects, Now("apply"))
    BY <2>1 DEF RebaseOK, Working
  <2>4. Now("apply")' = Now("apply")
    BY <2>1 DEF Now
  <2>5. ASSUME phase' = "linked"
        PROVE  (result.objects = objects /\ result.base = image_base /\ MadeOf(result, Now("apply")))'
    <3>1. /\ result'.objects = objects /\ result'.base = image_base
          /\ result'.contents = Relocated
          /\ result'.base_relocs = {<<f[1], f[2].off>> : f \in {f \in Fields : NeedsBaseReloc(f[2].kind)}}
      BY <1>2, <2>5 DEF Apply
    <3>2. result'.contents = At(objects, image_base, Now("apply"))!Relocated
      BY <3>1, AtHere
    <3>3. result'.base_relocs = Moving(objects, image_base, Now("apply"))
      BY <3>1, AtHere DEF Moving
    <3>4. Now("apply").phase = "apply"
      BY NowFields
    <3>5. QED
      BY <2>1, <2>3, <2>4, <3>1, <3>2, <3>3, <3>4 DEF MadeOf
  <2>6. QED
    BY <2>1, <2>2, <2>4, <2>5 DEF RebaseOK, Working
<1>3. ASSUME NEW o \in Pool, AddObject(o) PROVE RebaseOK'
  BY <1>3 DEF AddObject, RebaseOK, Working
<1>4. ASSUME NEW b \in Bases, Relink(b) PROVE RebaseOK'
  <2>1. /\ phase' = "sections" /\ UNCHANGED objects
        /\ before' = IF phase = "linked" THEN result ELSE NoResult
    BY <1>4 DEF Relink
  <2>2. Now(phase)' = Begin
    BY <1>4, NowNext DEF Relink, Begin
  <2>3. Reached(objects, Now(phase))'
    BY <2>2, BeginReached
  <2>4. (before = NoResult \/ \E st : MadeOf(before, st))'
    BY <2>1 DEF RebaseOK
  <2>5. QED
    BY <2>1, <2>3, <2>4 DEF RebaseOK
<1>5. CASE UNCHANGED vars
  <2>1. /\ UNCHANGED <<objects, image_base, before, phase, result>>
        /\ Now(phase)' = Now(phase) /\ Now("apply")' = Now("apply")
    BY <1>5 DEF vars, inputs, Now
  <2>2. QED
    BY <2>1 DEF RebaseOK
<1>6. QED
  BY <1>1, <1>2, <1>3, <1>4, <1>5 DEF Next, Link

(* No reference is to an absolute symbol.                                  *)
AbsolutesUnused ==
  \A o, q \in Pool : \A r \in RelocsIn(o) :
    /\ r.sym \notin DOMAIN Absolutes
    /\ \A y \in SymbolsIn(q) : y.name = r.sym => y.kind # "absolute"

LEMMA PlaceTyped ==
  ASSUME IInv, NamesOK, LinkedOK, phase = "linked", NEW s \in DOMAIN sections
  PROVE  layout[Placed(s)].rva \in Int
<1>1. Placed(s) \in DOMAIN layout
  BY AllPlaced
<1>2. layout[Placed(s)] \in [name : DOMAIN sections, rva : Nat, file : Nat]
  BY <1>1, ElementOf DEF IInv, LayoutOK
<1>3. QED
  BY <1>2

(* The base that a result names is one of those linked at.                 *)
BeforeTyped == before.base \in Int /\ (phase = "linked" => result.base \in Int)

(* What a name is bound to moves with the image, unless it is absolute.    *)
LEMMA AddressMoves ==
  ASSUME AbsolutesUnused, IInv, SlotsOK, NamesOK, LinkedOK, phase = "linked",
         NEW s \in DOMAIN sections, NEW r \in sections[s].relocs, NEW b \in Int, NEW st,
         st = Now("apply")
  PROVE  /\ addresses[r.sym] \in Int
         /\ At(objects, b, st)!addresses[r.sym] = addresses[r.sym] + (b - image_base)
<1>0. /\ st.sections = sections /\ st.table = table /\ st.slots = slots /\ st.layout = layout
  BY NowFields
<1>1. PICK i, m, t : From(s, r, i, m, t)
  BY FieldFrom
<1>2. objects[i] \in Pool /\ r.sym = t.sym /\ t \in RelocsIn(objects[i])
  BY <1>1 DEF From, Carried, RelocsIn
<1>3. r.sym \in DOMAIN addresses
  <2>1. r \in References
    BY DEF References
  <2>2. QED
    BY <2>1 DEF LinkedOK, Missing
<1>4. r.sym \in DOMAIN table /\ table[r.sym].kind # "undefined"
  BY <1>3 DEF addresses
<1>5. PICK j \in DOMAIN objects : \E y \in SymbolsOf(j) : y.name = r.sym /\ table[r.sym] = MovedOf(j, y)
  BY <1>2, <1>4 DEF NamesOK, Originates, AbsolutesUnused
<1>6. PICK y \in SymbolsOf(j) : y.name = r.sym /\ table[r.sym] = MovedOf(j, y)
  BY <1>5
<1>7. /\ table[r.sym].kind = y.kind /\ table[r.sym].sec = y.sec /\ y.kind # "undefined"
      /\ y.kind \in SymbolKinds
  BY <1>4, <1>6, SymbolTyped DEF MovedOf, ObjectSymbols
<1>8. y.kind # "absolute"
  <2>1. objects[j] \in Pool /\ y \in SymbolsIn(objects[j])
    BY <1>6 DEF IInv, InputsOK, SymbolsOf, SymbolsIn
  <2>2. QED
    BY <1>2, <1>6, <2>1 DEF AbsolutesUnused
<1>9. Address(r.sym) \in Int
  BY <1>4, <1>6, <1>7, AddressMeans
<1>10. addresses[r.sym] = Address(r.sym)
  BY <1>3 DEF addresses
<1>11. At(objects, b, st)!addresses[r.sym] = At(objects, b, st)!Address(r.sym)
  BY <1>0, <1>4 DEF At!addresses
<1>12. \A name : At(objects, b, st)!SectionVA(name) = b + layout[Placed(name)].rva
  BY <1>0 DEF At!SectionVA, At!Placed, Placed
<1>13. image_base \in Int
  BY LinkerAssumption DEF IInv, InputsOK
<1>14. At(objects, b, st)!Address(r.sym) = Address(r.sym) + (b - image_base)
  <2>1. CASE y.kind = "import"
    <3>1. r.sym \in DOMAIN slots /\ ".idata" \in DOMAIN sections
      BY <1>4, <1>7, <2>1 DEF LinkedOK
    <3>2. slots[r.sym] \in Int /\ SectionVA(".idata") \in Int /\ layout[Placed(".idata")].rva \in Int
      BY <3>1, AllPlaced, PlaceTyped DEF SlotsOK
    <3>3. Address(r.sym) = image_base + layout[Placed(".idata")].rva + slots[r.sym]
      BY <1>7, <2>1 DEF Address, SectionVA
    <3>4. At(objects, b, st)!Address(r.sym) = b + layout[Placed(".idata")].rva + slots[r.sym]
      BY <1>0, <1>7, <1>12, <2>1 DEF At!Address
    <3>5. QED
      BY <1>13, <3>2, <3>3, <3>4
  <2>2. CASE y.kind \in {"local", "global"}
    <3>1. <<j, y.sec>> \in DOMAIN offsets
      BY <1>6, <2>2, SymbolTyped DEF NamesOK, Assembled, SectionDone
    <3>2. offsets[<<j, y.sec>>] \in Int /\ y.sec \in DOMAIN sections /\ y.val \in Int
      BY <1>6, <3>1, SymbolTyped DEF IInv, PartsOK, ObjectSymbols
    <3>3. layout[Placed(y.sec)].rva \in Int
      BY <3>2, PlaceTyped
    <3>4. table[r.sym].val \in Int
      BY <1>6, <2>2, <3>2 DEF MovedOf
    <3>5. Address(r.sym) = image_base + layout[Placed(y.sec)].rva + table[r.sym].val
      BY <1>7, <2>2 DEF Address, SectionVA
    <3>6. At(objects, b, st)!Address(r.sym) = b + layout[Placed(y.sec)].rva + table[r.sym].val
      BY <1>0, <1>7, <1>12, <2>2 DEF At!Address
    <3>7. QED
      BY <1>13, <3>3, <3>4, <3>5, <3>6
  <2>3. QED
    BY <1>7, <1>8, <2>1, <2>2 DEF SymbolKinds
<1>15. QED
  BY <1>9, <1>10, <1>11, <1>14

LEMMA ValueMoves ==
  ASSUME AbsolutesUnused, IInv, SlotsOK, NamesOK, LinkedOK, phase = "linked",
         NEW s \in DOMAIN sections, NEW r \in sections[s].relocs, NEW b \in Int, NEW st,
         st = Now("apply")
  PROVE  Value(s, r) = At(objects, b, st)!Value(s, r) +
                         (IF NeedsBaseReloc(r.kind) THEN image_base - b ELSE 0)
<1>0. st.layout = layout
  BY NowFields
<1>1. r.kind \in Kinds /\ r.add \in Int /\ r.adj \in Int /\ r.off \in Int
  <2>1. PICK i, m, t : From(s, r, i, m, t)
    BY FieldFrom
  <2>2. offsets[<<i, s>>] \in Nat
    BY <2>1 DEF From, IInv, PartsOK
  <2>3. QED
    BY <2>1, <2>2 DEF From, Carried, Relocations
<1>2. PICK p \in Int : p = layout[Placed(s)].rva
  BY PlaceTyped
<1>3. image_base \in Int /\ Width(r.kind) \in Int
  BY LinkerAssumption DEF IInv, InputsOK, Width
<1>4. PICK w \in Int : w = Width(r.kind)
  BY <1>3
<1>5. At(objects, b, st)!Width(r.kind) = w
  BY <1>4 DEF At!Width, Width
<1>6. SectionVA(s) = image_base + p /\ At(objects, b, st)!SectionVA(s) = b + p
  BY <1>0, <1>2 DEF SectionVA, At!SectionVA, At!Placed, Placed
<1>7. At(objects, b, st)!Placed(s) = Placed(s) /\ Placed(s) \in Nat
  <2>1. At(objects, b, st)!Placed(s) = Placed(s)
    BY <1>0 DEF At!Placed, Placed
  <2>2. Placed(s) \in DOMAIN layout
    BY AllPlaced
  <2>3. \A S : \A q \in Seq(S) : DOMAIN q \subseteq Nat
    OBVIOUS
  <2>4. QED
    BY <2>1, <2>2, <2>3 DEF IInv, LayoutOK
<1>8. PICK a \in Int : a = addresses[r.sym]
  BY AddressMoves
<1>9. At(objects, b, st)!addresses[r.sym] = a + (b - image_base)
  BY <1>8, AddressMoves
<1>10. CASE r.kind = "RVA32"
  BY <1>1, <1>3, <1>8, <1>9, <1>10 DEF Value, At!Value, NeedsBaseReloc
<1>11. CASE r.kind = "SECREL32"
  BY <1>1, <1>3, <1>6, <1>8, <1>9, <1>11 DEF Value, At!Value, NeedsBaseReloc
<1>12. CASE r.kind = "SECTION16"
  BY <1>7, <1>12 DEF Value, At!Value, NeedsBaseReloc
<1>13. CASE r.kind \in {"REL32", "REL8"}
  <2>1. Value(s, r) = a + r.add - (image_base + p + r.off + w + r.adj)
    BY <1>1, <1>3, <1>4, <1>6, <1>8, <1>13 DEF Value
  <2>2. At(objects, b, st)!Value(s, r) = a + (b - image_base) + r.add - (b + p + r.off + w + r.adj)
    BY <1>1, <1>3, <1>5, <1>6, <1>9, <1>13 DEF At!Value
  <2>3. ~NeedsBaseReloc(r.kind)
    BY <1>13 DEF NeedsBaseReloc
  <2>4. QED
    BY <1>1, <1>3, <2>1, <2>2, <2>3
<1>14. CASE r.kind \in {"ABS64", "ABS32"}
  BY <1>1, <1>3, <1>8, <1>9, <1>14 DEF Value, At!Value, NeedsBaseReloc
<1>15. QED
  BY <1>1, <1>10, <1>11, <1>12, <1>13, <1>14 DEF Kinds

(* base_relocs has a site if the field that fills it is absolute.          *)
LEMMA OneField ==
  ASSUME FieldsAlone, IInv, NamesOK, phase # "idle",
         NEW f \in Fields, NEW g \in Fields, f[1] = g[1], f[2].off = g[2].off
  PROVE  f = g /\ f[1] \in DOMAIN sections /\ f[2] \in sections[f[1]].relocs
<1>1. PICK s \in DOMAIN sections : f \in {<<s, r>> : r \in sections[s].relocs}
  BY DEF Fields
<1>2. PICK r \in sections[s].relocs : f = <<s, r>>
  BY <1>1
<1>3. PICK x \in DOMAIN sections : g \in {<<x, u>> : u \in sections[x].relocs}
  BY DEF Fields
<1>4. PICK u \in sections[x].relocs : g = <<x, u>>
  BY <1>3
<1>5. s = x /\ r.off = u.off
  BY <1>2, <1>4
<1>6. r = u
  BY <1>5, SiteAlone
<1>7. QED
  BY <1>2, <1>4, <1>5, <1>6

LEMMA Rebases ==
  ASSUME AbsolutesUnused, FieldsAlone, IInv, SlotsOK, NamesOK, LinkedOK, RebaseOK,
         BeforeTyped, phase = "linked", before.objects = objects, objects # <<>>,
         NEW site \in DOMAIN result.contents
  PROVE  result.contents[site] =
           before.contents[site] +
             (IF site \in before.base_relocs THEN image_base - before.base ELSE 0)
<1> DEFINE b == before.base
<1>1. PICK st : MadeOf(before, st)
  <2>1. before # NoResult
    BY DEF NoResult
  <2>2. QED
    BY <2>1 DEF RebaseOK
<1>2. st = Now("apply")
  <2>1. Reached(objects, st) /\ st.phase = "apply"
    BY <1>1 DEF MadeOf
  <2>2. Reached(objects, Now("apply")) /\ Now("apply").phase = "apply"
    BY DEF RebaseOK, MadeOf
  <2>3. QED
    BY <2>1, <2>2, OneEnd
<1>3. b \in Int
  BY DEF BeforeTyped
<1>4. At(objects, b, st)!Fields = Fields
  BY <1>2, NowFields DEF At!Fields, Fields
<1>5. result.contents = Relocated /\ before.contents = At(objects, b, st)!Relocated
  BY <1>1 DEF LinkedOK, MadeOf
<1>6. before.base_relocs = {<<f[1], f[2].off>> : f \in {f \in Fields : NeedsBaseReloc(f[2].kind)}}
  BY <1>1, <1>4 DEF MadeOf, Moving
<1>7. site \in {<<f[1], f[2].off>> : f \in Fields}
  BY <1>5 DEF Relocated
<1> DEFINE f0 == CHOOSE f \in Fields : f[1] = site[1] /\ f[2].off = site[2]
<1>8. f0 \in Fields /\ f0[1] = site[1] /\ f0[2].off = site[2] /\ site = <<site[1], site[2]>>
  BY <1>7
<1>9. Relocated[site] = Value(f0[1], f0[2])
  BY <1>7 DEF Relocated
<1>10. At(objects, b, st)!Relocated[site] = At(objects, b, st)!Value(f0[1], f0[2])
  BY <1>4, <1>7 DEF At!Relocated
<1> HIDE DEF f0
<1>11. f0[1] \in DOMAIN sections /\ f0[2] \in sections[f0[1]].relocs
  BY <1>8, OneField
<1>12. site \in before.base_relocs <=> NeedsBaseReloc(f0[2].kind)
  <2>1. ASSUME site \in before.base_relocs PROVE NeedsBaseReloc(f0[2].kind)
    <3>1. PICK f \in Fields : NeedsBaseReloc(f[2].kind) /\ site = <<f[1], f[2].off>>
      BY <1>6, <2>1
    <3>2. f = f0
      BY <1>8, <3>1, OneField
    <3>3. QED
      BY <3>1, <3>2
  <2>2. ASSUME NeedsBaseReloc(f0[2].kind) PROVE site \in before.base_relocs
    BY <1>6, <1>8, <2>2
  <2>3. QED
    BY <2>1, <2>2
<1>13. Value(f0[1], f0[2]) = At(objects, b, st)!Value(f0[1], f0[2]) +
                               (IF NeedsBaseReloc(f0[2].kind) THEN image_base - b ELSE 0)
  BY <1>2, <1>3, <1>11, ValueMoves
<1>14. QED
  BY <1>5, <1>9, <1>10, <1>12, <1>13

LEMMA InitBefore == Init => BeforeTyped
  BY DEF Init, BeforeTyped, NoResult

LEMMA NextBefore == IInv /\ BeforeTyped /\ [Next]_vars => BeforeTyped'
<1> SUFFICES ASSUME IInv, BeforeTyped, [Next]_vars PROVE BeforeTyped'
  OBVIOUS
<1>1. CASE MergeSection \/ NextSections \/ MergeSymbol \/ NextSymbols \/ ReserveIat
           \/ PlaceSection \/ Bind
  BY <1>1 DEF MergeSection, NextSections, MergeSymbol, NextSymbols, ReserveIat, PlaceSection,
              Bind, inputs, BeforeTyped
<1>2. CASE Apply
  <2>1. image_base \in Int
    BY LinkerAssumption DEF IInv, InputsOK
  <2>2. phase' = "linked" => result'.base = image_base
    BY <1>2 DEF Apply
  <2>3. QED
    BY <1>2, <2>1, <2>2 DEF Apply, inputs, BeforeTyped
<1>3. ASSUME NEW o \in Pool, AddObject(o) PROVE BeforeTyped'
  BY <1>3 DEF AddObject, BeforeTyped
<1>4. ASSUME NEW b \in Bases, Relink(b) PROVE BeforeTyped'
  BY <1>4 DEF Relink, BeforeTyped, NoResult
<1>5. CASE UNCHANGED vars
  BY <1>5 DEF vars, inputs, BeforeTyped
<1>6. QED
  BY <1>1, <1>2, <1>3, <1>4, <1>5 DEF Next, Link

(* relocated and NeedsBaseReloc: an image that the loader moves by its     *)
(* base relocations is the image that a link at the new base makes.        *)
THEOREM LoaderMoves ==
  ASSUME AbsolutesUnused, FieldsAlone
  PROVE  Spec => []RebaseIsRelink
<1>1. IInv /\ SlotsOK /\ NamesOK /\ LinkedOK /\ RebaseOK /\ BeforeTyped => RebaseIsRelink
  BY Rebases DEF RebaseIsRelink
<1>2. Spec => []LinkedOK
  BY InitLinked, NextLinked, NamesInvariance, PTL DEF Spec
<1>3. Spec => []RebaseOK
  BY InitRebase, NextRebase, PTL DEF Spec
<1>4. Spec => []BeforeTyped
  BY InitBefore, NextBefore, NamesInvariance, PTL DEF Spec
<1>5. QED
  BY <1>1, <1>2, <1>3, <1>4, SlotsInvariance, NamesInvariance, PTL
=============================================================================
