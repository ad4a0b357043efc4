----------------------------- MODULE MCObjects -----------------------------
(* Small object files for the instances of Linker and PEWriter.            *)
EXTENDS Naturals, Sequences

Sec(name, align, raw, virt, relocs) ==
  [name |-> name, bss |-> name = ".bss", align |-> align, raw |-> raw, virt |-> virt,
   relocs |-> relocs]
Rel(off, kind, sym, add) == [off |-> off, kind |-> kind, sym |-> sym, add |-> add, adj |-> 0]
Sym(name, kind, sec, val) == [name |-> name, kind |-> kind, sec |-> sec, val |-> val, more |-> 0]
Undef(name) == Sym(name, "undefined", "", 0)
Obj(secs, syms) == [sections |-> secs, symbols |-> syms]

\* main calls g of helper and reads its own data.
MainObj == Obj(<<Sec(".text", 4, 13, 0, {Rel(0, "REL32", "g", 0), Rel(4, "ABS64", "d", 2)}),
                 Sec(".data", 8, 5, 0, {Rel(0, "ABS32", "g", 0)})>>,
               <<Sym("main", "global", ".text", 0), Sym("d", "global", ".data", 4), Undef("g")>>)
\* helper refers back to main and to its .bss.
HelperObj == Obj(<<Sec(".text", 8, 9, 0, {Rel(0, "RVA32", "main", 0), Rel(8, "REL8", "l", 1)}),
                   Sec(".data", 4, 4, 0, {Rel(0, "ABS32", "z", 0)}),
                   Sec(".bss", 4, 0, 20, {})>>,
                 <<Sym("g", "global", ".text", 5), Sym("l", "local", ".text", 1),
                   Sym("z", "global", ".bss", 8), Undef("main")>>)
\* two imports, and something of its own in .idata.
ImportObj == Obj(<<Sec(".idata", 4, 6, 0, {}),
                   Sec(".text", 4, 12, 0, {Rel(0, "ABS64", "b!f", 0), Rel(8, "REL32", "a!f", 0)})>>,
                 <<Sym("b!f", "import", "", 0), Sym("a!f", "import", "", 0)>>)
\* a second g, and an l for all
OtherObj == Obj(<<Sec(".text", 1, 3, 0, {})>>, <<Sym("g", "global", ".text", 0), Sym("l", "global", ".text", 2)>>)
\* a local l of its own, and a zero-filled tail
LocalObj == Obj(<<Sec(".text", 4, 8, 0, {Rel(0, "ABS32", "l", 0)}), Sec(".bss", 8, 0, 4, {})>>,
                <<Sym("l", "local", ".text", 4)>>)
\* references by section, and to an absolute symbol
SectionObj == Obj(<<Sec(".text", 4, 8, 0, {Rel(0, "SECREL32", "e", 0), Rel(4, "SECTION16", "e", 0)}),
                    Sec(".data", 4, 4, 0, {})>>, <<Sym("e", "global", ".data", 2)>>)
AbsoluteObj == Obj(<<Sec(".data", 4, 4, 0, {Rel(0, "ABS32", "port", 0)})>>, <<Undef("port")>>)
\* absolute references on two pages, and another l for all
PointersObj == Obj(<<Sec(".data", 8, 26, 0, {Rel(0, "ABS64", "p", 0), Rel(8, "ABS64", "p", 8),
                                            Rel(20, "ABS32", "p", 0)}),
                     Sec(".text", 4, 6, 0, {})>>,
                   <<Sym("p", "global", ".data", 8), Sym("l", "global", ".text", 4)>>)
\* a section that was asked for and never written
EmptyObj == Obj(<<Sec(".text", 4, 4, 0, {}), Sec(".data", 4, 0, 0, {}), Sec(".idata", 4, 4, 0, {})>>,
                <<>>)
\* a .reloc section of its own, and a section that is placed behind it
RelocObj == Obj(<<Sec(".reloc", 4, 4, 0, {}), Sec(".tls", 4, 4, 0, {})>>, <<>>)
OwnRelocObj == Obj(<<Sec(".reloc", 4, 4, 0, {})>>, <<>>)
=============================================================================
