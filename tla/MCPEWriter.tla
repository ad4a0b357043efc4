----------------------------- MODULE MCPEWriter -----------------------------
(* Linker and PEWriter with pages of 16 bytes.  In ImagePool two objects   *)
(* have zero-filled tails in one section, two have locals of one name, and *)
(* two have globals of that name.  The other pools are for what the linker *)
(* and the writer get wrong.                                               *)
EXTENDS PEWriter, MCObjects

ImagePool == {MainObj, HelperObj, ImportObj, OtherObj, PointersObj, OwnRelocObj, LocalObj}
SectionPool == {SectionObj, OtherObj}
AbsolutePool == {AbsoluteObj, OtherObj}
EmptyPool == {EmptyObj}
RelocPool == {PointersObj, RelocObj}

NoAbsolutes == <<>>
Port == [port |-> 40]
Order == <<".text", ".data", ".bss", ".idata", ".reloc", ".tls">>
Imported == <<"a!f", "b!f">>
=============================================================================
