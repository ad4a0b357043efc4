----------------------------- MODULE MCPipeline -----------------------------
(* Pipeline for three passes, two artifacts and two contexts, over every   *)
(* assignment of a few kinds of declaration to the passes.                 *)
EXTENDS Pipeline

Decl(r, o, w, a, ph) ==
  [reads |-> r, optional |-> o, writes |-> w, after |-> a, phase |-> ph]

Kinds ==
  {Decl({}, {}, {"a"}, {}, 10),            \* a loader
   Decl({"a"}, {}, {"b"}, {}, 20),         \* an analysis
   Decl({"a", "b"}, {}, {}, {}, 20),       \* a check
   Decl({"a"}, {}, {"a"}, {}, 50),         \* a repair in place
   Decl({}, {"b"}, {"a"}, {}, 10),         \* a loader with a hint
   Decl({}, {"a"}, {"b"}, {1}, 60)}        \* a quirk

MCCatalog == [Pass -> Kinds]
MCSeeds == [c \in Context |-> IF c = "bare" THEN {} ELSE {"a"}]
MCAccepts == [c \in Context |-> IF c = "bare" THEN Pass ELSE Pass \ {1}]
MCQuirks == [c \in Context |-> c = "bare"]
MCStop == [c \in Context |-> IF c = "bare" THEN None ELSE 2]
=============================================================================
