------------------------------ MODULE Pipeline ------------------------------
(***************************************************************************)
(* The pass pipeline (x86x64/pipeline): which passes a context gets, the   *)
(* order they run in, and the artifact store they exchange data through.   *)
(*                                                                         *)
(* A caller makes a context, builds a pipeline for it and runs it; it may  *)
(* run the same pipeline over another context (Reuse) or the same context  *)
(* again, say after a failure.  What a pass does with its view of the      *)
(* store is external: any sequence of accesses, declared or not, and then  *)
(* a return or an exception.                                               *)
(***************************************************************************)
EXTENDS Naturals, Sequences, FiniteSets

CONSTANTS
  Pass,        \* numbers: of a name only its place in the alphabet matters
  Key,         \* artifact keys
  Catalog,     \* sets of declarations the passes may come with
  Context,
  Seeds,       \* Seeds[c]: keys already in the store of c
  Accepts,     \* Accepts[c]: passes whose matcher and applies_to take c
  Quirks,      \* Quirks[c]: options.enable_quirks
  StopAfter,   \* StopAfter[c]: a pass to stop at, or None
  Quirk,       \* the number of Phase.QUIRK
  None,
  Reuse,       \* callers run one pipeline over several contexts
  MaxRuns      \* bound on the number of runs

Declaration ==
  [reads : SUBSET Key, optional : SUBSET Key, writes : SUBSET Key,
   after : SUBSET Pass, phase : Nat]

ASSUME ConstAssumption ==
  /\ Pass \subseteq Nat
  /\ IsFiniteSet(Pass)
  /\ None \notin Pass
  /\ Catalog \subseteq [Pass -> Declaration]
  /\ Seeds \in [Context -> SUBSET Key]
  /\ Accepts \in [Context -> SUBSET Pass]
  /\ Quirks \in [Context -> BOOLEAN]
  /\ StopAfter \in [Context -> Pass \union {None}]
  /\ Reuse \in BOOLEAN
  /\ MaxRuns \in Nat

VARIABLES
  decl,      \* decl[p]: what pass p declares; never changes
  ctx,       \* the context at hand, None before the first
  store,     \* store[k]: who wrote artifact k, None if a seed
  passes,    \* the passes of the pipeline
  order,     \* Pipeline._order, <<>> while there is none
  edges,     \* edges[p]: passes that the sort puts before p
  remaining, \* passes the sort has not placed yet
  pc,        \* "idle", "sort", "run" or "failed"
  at,        \* index in order of the pass that runs
  cause,     \* why the run failed: kind, passes and key of the exception
  runs,      \* number of runs begun
  seeded,    \* history: keys in the store when the run began
  got,       \* history: accesses <<pass, key>> of the run that found a value
  done       \* history: the passes that returned in the run

pipeline == <<passes, order, edges, remaining>>
history == <<seeded, got, done>>
vars == <<decl, ctx, store, pipeline, pc, at, cause, runs, history>>

NoCause == [kind |-> "none", who |-> {}, key |-> None]
Has(k) == k \in DOMAIN store

(***************************************************************************)
(* Dependencies (order).                                                   *)
(***************************************************************************)
Producers(k) == {p \in passes : k \in decl[p].writes}

(* The reads that neither a pass nor a seed supplies.                      *)
Unsatisfied(seed) ==
  {lack \in passes \X (Key \ seed) :
      lack[2] \in decl[lack[1]].reads /\ Producers(lack[2]) = {}}

(* Mutant: of several passes that write an artifact only one counts.       *)
BeforeOneProducer(p, seed) ==
  (UNION {{q \in Producers(k) \ {p} : \A r \in Producers(k) \ {p} : r <= q} :
            k \in (decl[p].reads \ seed) \union decl[p].optional})
    \union (decl[p].after \intersect passes)

Before(p, seed) ==
  ((UNION {Producers(k) : k \in (decl[p].reads \ seed) \union decl[p].optional}) \ {p})
    \union (decl[p].after \intersect passes)

(***************************************************************************)
(* Kahn's algorithm (_toposort) and the cycle it names (_find_cycle).      *)
(***************************************************************************)
Precedes(p, q) ==
  \/ decl[p].phase < decl[q].phase
  \/ decl[p].phase = decl[q].phase /\ p < q

(* Mutant: a pass is ready once one of its dependencies has been placed.   *)
ReadyIfAny == {p \in remaining : edges[p] = {} \/ edges[p] \ remaining # {}}

Ready == {p \in remaining : edges[p] \intersect remaining = {}}

Least(S) == CHOOSE p \in S : \A q \in S : p <= q

(* From some pass on to the least of its dependencies that are left, until *)
(* one comes up again.                                                     *)
Walk(start) ==
  LET w[i \in Nat] ==
        IF i = 0 THEN start ELSE Least(edges[w[i - 1]] \intersect remaining)
  IN  w

(* Mutant: the passes that lead to the cycle are named too.                *)
CycleWithTail(start) == {Walk(start)[i] : i \in 0 .. Cardinality(remaining)}

Cycle(start) ==
  LET n == Cardinality(remaining)
  IN  {Walk(start)[i] : i \in n .. 2 * n}

(***************************************************************************)
(* The caller.                                                             *)
(***************************************************************************)
Init ==
  /\ decl \in Catalog
  /\ ctx = None /\ store = [k \in {} |-> None]
  /\ passes = {} /\ order = <<>>
  /\ edges = [p \in {} |-> {}] /\ remaining = {}
  /\ pc = "idle" /\ at = 0 /\ cause = NoCause /\ runs = 0
  /\ seeded = {} /\ got = {} /\ done = {}

Idle == pc \in {"idle", "failed"}

(* The dependencies and what is left to place are locals of the sort.      *)
NoSort == edges' = [p \in {} |-> {}] /\ remaining' = {}

NewContext(c) ==
  /\ Idle
  /\ ctx' = c
  /\ store' = [k \in Seeds[c] |-> None]
  /\ pc' = "idle" /\ cause' = NoCause /\ at' = 0
  /\ seeded' = {} /\ got' = {} /\ done' = {}
  /\ passes' = IF Reuse THEN passes ELSE {}
  /\ order' = IF Reuse THEN order ELSE <<>>
  /\ NoSort
  /\ UNCHANGED <<decl, runs>>

Selected(c) ==
  {p \in Accepts[c] : decl[p].phase = Quirk => Quirks[c]}

(* Pipeline.for_context: a pipeline has no order until it first runs.      *)
Build ==
  /\ Idle /\ ctx # None
  /\ passes' = Selected(ctx)
  /\ order' = <<>>
  /\ pc' = "idle" /\ cause' = NoCause /\ at' = 0
  /\ seeded' = DOMAIN store /\ got' = {} /\ done' = {}
  /\ NoSort
  /\ UNCHANGED <<decl, ctx, store, runs>>

Fail(kind, who, key) ==
  /\ pc' = "failed"
  /\ cause' = [kind |-> kind, who |-> who, key |-> key]

(* run begins: an order the pipeline has already is used as it is.         *)
Start ==
  /\ Idle /\ ctx # None /\ passes # {} /\ runs < MaxRuns
  /\ runs' = runs + 1
  /\ seeded' = DOMAIN store /\ got' = {} /\ done' = {}
  /\ UNCHANGED <<decl, ctx, store, passes, order>>
  /\ \/ /\ order # <<>>
        /\ pc' = "run" /\ at' = 1 /\ cause' = NoCause
        /\ UNCHANGED <<edges, remaining>>
     \/ /\ order = <<>> /\ at' = 0
        /\ \/ /\ Unsatisfied(DOMAIN store) = {}
              /\ edges' = [p \in passes |-> Before(p, DOMAIN store)]
              /\ remaining' = passes
              /\ pc' = "sort" /\ cause' = NoCause
           \/ /\ \E lack \in Unsatisfied(DOMAIN store) :
                   Fail("unsatisfied", {lack[1]}, lack[2])
              /\ UNCHANGED <<edges, remaining>>

(***************************************************************************)
(* The sort, one pass at a time.                                           *)
(***************************************************************************)
sorting == <<decl, ctx, store, passes, edges, runs, history>>

Place(p) ==
  /\ pc = "sort" /\ p \in Ready
  /\ \A q \in Ready : q = p \/ Precedes(p, q)
  /\ order' = Append(order, p)
  /\ remaining' = remaining \ {p}
  /\ UNCHANGED <<sorting, pc, at, cause>>

(* Mutant: nothing is ready, and the loop goes on.                         *)
StuckSpins ==
  /\ pc = "sort" /\ remaining # {} /\ Ready = {}
  /\ UNCHANGED <<sorting, order, remaining, pc, at, cause>>

(* CyclicDependency: _order stays None, and the error names a cycle.       *)
Stuck ==
  /\ pc = "sort" /\ remaining # {} /\ Ready = {}
  /\ \E start \in remaining : Fail("cycle", Cycle(start), None)
  /\ order' = <<>>
  /\ UNCHANGED <<sorting, remaining, at>>

Sorted ==
  /\ pc = "sort" /\ remaining = {}
  /\ pc' = "run" /\ at' = 1
  /\ UNCHANGED <<sorting, order, remaining, cause>>

(***************************************************************************)
(* A pass and its view (ArtifactView).                                     *)
(***************************************************************************)
Running(p) == pc = "run" /\ p = order[at]
accessing == <<decl, ctx, pipeline, at, runs, seeded, done>>

(* view[k]; view.get(k) differs only in that an absent key is not an error. *)
Read(p, k, get) ==
  /\ Running(p)
  /\ \/ /\ k \notin decl[p].reads \union decl[p].optional
        /\ Fail("undeclared", {p}, k) /\ UNCHANGED got
     \/ /\ k \in decl[p].reads \union decl[p].optional
        /\ \/ /\ Has(k)
              /\ got' = got \union {<<p, k>>} /\ UNCHANGED <<pc, cause>>
           \/ /\ ~Has(k) /\ ~get
              /\ Fail("missing", {p}, k) /\ UNCHANGED got
  /\ UNCHANGED <<accessing, store>>

Write(p, k) ==
  /\ Running(p)
  /\ \/ /\ k \notin decl[p].writes
        /\ Fail("undeclared", {p}, k) /\ UNCHANGED store
     \/ /\ k \in decl[p].writes
        /\ store' = [j \in DOMAIN store \union {k} |-> IF j = k THEN p ELSE store[j]]
        /\ UNCHANGED <<pc, cause>>
  /\ UNCHANGED <<accessing, got>>

(* A pass may return with some of its writes not done, or raise with some  *)
(* of them done; what it wrote stays.                                      *)
Raise(p) ==
  /\ Running(p)
  /\ Fail("raised", {p}, None)
  /\ UNCHANGED <<accessing, store, got>>

Return(p) ==
  /\ Running(p)
  /\ done' = done \union {p}
  /\ IF at = Len(order) \/ StopAfter[ctx] = p
       THEN pc' = "idle" /\ UNCHANGED at
       ELSE at' = at + 1 /\ UNCHANGED pc
  /\ UNCHANGED <<decl, ctx, store, pipeline, cause, runs, seeded, got>>

Sort == (\E p \in Pass : Place(p)) \/ Stuck \/ Sorted
Access(p) == Raise(p) \/ \E k \in Key : Write(p, k) \/ \E get \in BOOLEAN : Read(p, k, get)

Next ==
  \/ \E c \in Context : NewContext(c)
  \/ Build \/ Start \/ Sort
  \/ \E p \in Pass : Access(p) \/ Return(p)

Spec == Init /\ [][Next]_vars

(* The sort is a loop that nothing interrupts, and a pass comes to an end. *)
FairSpec ==
  Spec /\ WF_vars(Sort) /\ WF_vars(\E p \in Pass : Raise(p) \/ Return(p))

(***************************************************************************)
(* Properties.                                                             *)
(***************************************************************************)
TypeOK ==
  /\ decl \in Catalog /\ ctx \in Context \union {None}
  /\ DOMAIN store \subseteq Key /\ \A k \in DOMAIN store : store[k] \in Pass \union {None}
  /\ passes \subseteq Pass /\ order \in Seq(passes)
  /\ remaining \subseteq passes /\ DOMAIN edges \subseteq Pass
  /\ pc \in {"idle", "sort", "run", "failed"} /\ at \in Nat /\ runs \in 0 .. MaxRuns
  /\ (pc = "run" => at \in DOMAIN order /\ ctx # None)
  /\ cause.kind \in {"none", "unsatisfied", "cycle", "missing", "undeclared", "raised"}
  /\ cause.key \in Key \union {None}
  /\ seeded \subseteq Key
  /\ got \subseteq Pass \X Key /\ done \subseteq passes

(* A run follows an order in which each pass comes after every pass that   *)
(* supplies what it reads, or that it asks to come after (order).          *)
ReadsAfterWrites ==
  pc = "run" =>
    \A i \in DOMAIN order : Before(order[i], seeded) \subseteq {order[j] : j \in 1 .. i - 1}

(* That order is the only one the ties leave: a pass is never put behind   *)
(* one of a later phase or name if it could have come first.  So a         *)
(* registration in another order does not reshuffle the run.               *)
Deterministic ==
  pc = "run" =>
    \A i, j \in DOMAIN order :
      i < j => \/ Precedes(order[i], order[j])
               \/ ~(edges[order[j]] \subseteq {order[h] : h \in 1 .. i - 1})

(* When the passes depend on each other in a cycle, those the error names  *)
(* are one: each of them waits for another of them, and is waited for.     *)
CycleIsReal ==
  cause.kind = "cycle" =>
    /\ cause.who # {}
    /\ \A p \in cause.who : \E q \in cause.who : q \in edges[p]
    /\ \A q \in cause.who : \E p \in cause.who : q \in edges[p]

(* What a pass has read in this run, unless it was there before the run,   *)
(* no other pass of the run writes afterwards.                             *)
NoStaleRead ==
  [][\A k \in DOMAIN store' :
       store'[k] # None /\ (k \in DOMAIN store => store[k] # store'[k])
         => \A g \in got : g[2] = k /\ k \notin seeded => g[1] = store'[k]]_vars

(* A declared artifact is missing only because passes that promise to      *)
(* write it have run and did not, never because of the order.              *)
MissingMeansUnwritten ==
  cause.kind = "missing" =>
    \A p \in cause.who : Producers(cause.key) \ {p} \subseteq done

(* With quirks off no quirk pass runs, whatever was built or run before.   *)
PureMeansNoQuirk ==
  \A p \in done : decl[p].phase = Quirk => Quirks[ctx]

(* Passes that depend on each other only because they edit the same        *)
(* artifact in place, which add() allows, do not make a cycle.             *)
InPlaceRuns ==
  cause.kind = "cycle" =>
    \E p, q \in cause.who :
      /\ q \in edges[p]
      /\ \/ q \in decl[p].after
         \/ \E k \in decl[q].writes \intersect (decl[p].reads \union decl[p].optional) :
              k \notin decl[p].writes \/ k \notin decl[q].reads

(* Every run ends, whatever the passes declare.                            *)
RunsEnd == pc \in {"sort", "run"} ~> pc \in {"idle", "failed"}

(* A run is a run of Dataflow over the dependencies of its own context.    *)
Abstract ==
  INSTANCE Dataflow WITH
    need <- [p \in Pass |-> IF p \in passes THEN Before(p, seeded) ELSE {}]
ImplementsDataflow == Abstract!Spec
=============================================================================
