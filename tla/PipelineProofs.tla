--------------------------- MODULE PipelineProofs ---------------------------
(***************************************************************************)
(* Theorems about Pipeline for any passes, artifacts, declarations and     *)
(* contexts.                                                               *)
(***************************************************************************)
EXTENDS Pipeline, FiniteSetTheorems, WellFoundedInduction, TLAPS

(* The passes before place i of the order.                                 *)
Earlier(i) == {order[j] : j \in 1 .. i - 1}

(* While it sorts, what has been placed needs only what was placed before  *)
(* it, and precedes whatever was ready beside it.                          *)
SortOK ==
  pc = "sort" =>
    /\ ctx # None /\ passes # {} /\ got = {} /\ done = {}
    /\ edges = [p \in passes |-> Before(p, seeded)]
    /\ remaining = passes \ {order[i] : i \in DOMAIN order}
    /\ \A i \in DOMAIN order :
         /\ edges[order[i]] \subseteq Earlier(i)
         /\ \A q \in passes \ Earlier(i + 1) :
              Precedes(order[i], q) \/ ~(edges[q] \subseteq Earlier(i))

(* An order that is kept stays right: while its pipeline is of one context *)
(* the seeds only grow, so the dependencies only shrink.                   *)
OrderOK ==
  /\ seeded \subseteq DOMAIN store
  /\ \A i, j \in DOMAIN order : order[i] = order[j] => i = j
  /\ ~Reuse /\ pc # "sort" =>
       \A i \in DOMAIN order :
         /\ Before(order[i], seeded) \subseteq Earlier(i)
         /\ \A j \in DOMAIN order : i < j =>
              Precedes(order[i], order[j]) \/ ~(edges[order[j]] \subseteq Earlier(i))

(* A run is at one place of its order.                                     *)
RunOK ==
  pc = "run" =>
    /\ done = Earlier(at)
    /\ \A g \in got :
         /\ g[1] \in Earlier(at + 1)
         /\ g[2] \in decl[g[1]].reads \union decl[g[1]].optional

IInv == TypeOK /\ SortOK /\ OrderOK /\ RunOK

LEMMA BeforeType == \A p \in Pass, seed \in SUBSET Key : Before(p, seed) \subseteq passes
  BY DEF Before, Producers

(* More seeds, fewer dependencies.                                         *)
LEMMA BeforeShrinks ==
  \A p \in Pass : \A less, more \in SUBSET Key :
    less \subseteq more => Before(p, more) \subseteq Before(p, less)
  BY DEF Before

LEMMA BeforeKept ==
  ASSUME UNCHANGED <<decl, passes>>
  PROVE  /\ \A p, seed : Before(p, seed)' = Before(p, seed)
         /\ \A p, q : Precedes(p, q)' = Precedes(p, q)
  BY DEF Before, Producers, Precedes

LEMMA AppendFacts ==
  ASSUME NEW S, NEW s \in Seq(S), NEW e \in S
  PROVE  /\ Len(Append(s, e)) = Len(s) + 1
         /\ DOMAIN Append(s, e) = 1 .. Len(s) + 1
         /\ \A i \in DOMAIN s : Append(s, e)[i] = s[i]
         /\ Append(s, e)[Len(s) + 1] = e
  OBVIOUS

LEMMA NextIndex ==
  ASSUME NEW S, NEW s \in Seq(S), NEW i \in DOMAIN s, i # Len(s)
  PROVE  i + 1 \in DOMAIN s
  OBVIOUS

LEMMA InitType == Init => TypeOK
<1> SUFFICES ASSUME Init PROVE TypeOK
  OBVIOUS
<1>1. /\ decl \in Catalog /\ ctx = None /\ DOMAIN store = {} /\ passes = {}
      /\ order \in Seq(passes) /\ remaining = {} /\ DOMAIN edges = {}
  BY DEF Init
<1>2. cause.kind = "none" /\ cause.key = None
  BY DEF Init, NoCause
<1>3. QED
  BY <1>1, <1>2, ConstAssumption DEF Init, TypeOK

LEMMA TypeStep == TypeOK /\ SortOK /\ [Next]_vars => TypeOK'
<1> SUFFICES ASSUME TypeOK, SortOK, [Next]_vars PROVE TypeOK'
  OBVIOUS
<1> USE ConstAssumption DEF TypeOK, pipeline, history, Fail, NoCause
<1>1. ASSUME NEW c \in Context, NewContext(c) PROVE TypeOK'
  <2>1. passes' \subseteq Pass /\ order' \in Seq(passes')
    <3>1. CASE Reuse = TRUE
      BY <1>1, <3>1 DEF NewContext
    <3>2. CASE Reuse = FALSE
      BY <1>1, <3>2 DEF NewContext
    <3>3. QED
      BY <3>1, <3>2
  <2>2. DOMAIN store' \subseteq Key /\ \A k \in DOMAIN store' : store'[k] = None
    BY <1>1 DEF NewContext
  <2>3. QED
    BY <1>1, <2>1, <2>2 DEF NewContext, NoSort
<1>2. CASE Build
  <2>1. passes' \subseteq Pass /\ order' \in Seq(passes')
    BY <1>2 DEF Build, Selected
  <2>2. QED
    BY <1>2, <2>1 DEF Build, NoSort
<1>3. CASE Start
  <2>1. UNCHANGED <<decl, ctx, store, passes, order>> /\ runs' \in 0 .. MaxRuns
        /\ seeded' = DOMAIN store /\ got' = {} /\ done' = {} /\ ctx # None
    BY <1>3 DEF Start
  <2>2. CASE order # <<>> /\ pc' = "run" /\ at' = 1 /\ cause' = NoCause
             /\ UNCHANGED <<edges, remaining>>
    <3>1. 1 \in DOMAIN order
      BY <2>2
    <3>2. QED
      BY <2>1, <2>2, <3>1
  <2>3. CASE at' = 0 /\ edges' = [p \in passes |-> Before(p, DOMAIN store)]
             /\ remaining' = passes /\ pc' = "sort" /\ cause' = NoCause
    BY <2>1, <2>3
  <2>4. CASE at' = 0 /\ UNCHANGED <<edges, remaining>>
             /\ \E lack \in Unsatisfied(DOMAIN store) :
                  Fail("unsatisfied", {lack[1]}, lack[2])
    BY <2>1, <2>4 DEF Unsatisfied
  <2>5. QED
    BY <1>3, <2>2, <2>3, <2>4 DEF Start
<1>4. ASSUME NEW p \in Pass, Place(p) PROVE TypeOK'
  <2>1. p \in passes /\ order' \in Seq(passes)
    <3>1. p \in passes /\ order' = Append(order, p)
      BY <1>4 DEF Place, Ready
    <3>2. order \in Seq(passes)
      OBVIOUS
    <3>3. QED
      BY <3>1, <3>2
  <2>2. QED
    BY <1>4, <2>1 DEF Place, sorting
<1>5. CASE Stuck
  BY <1>5 DEF Stuck, sorting
<1>6. CASE Sorted
  <2>1. ctx # None /\ 1 \in DOMAIN order
    <3>1. ctx # None /\ order # <<>> /\ order \in Seq(passes)
      BY <1>6 DEF Sorted, SortOK
    <3>2. QED
      BY <3>1
  <2>2. QED
    BY <1>6, <2>1 DEF Sorted, sorting
<1>7. ASSUME NEW p \in Pass, Access(p) PROVE TypeOK'
  <2>1. UNCHANGED accessing /\ UNCHANGED <<order, passes, edges, remaining>>
    BY <1>7 DEF Access, Raise, Read, Write, accessing
  <2>2. CASE Raise(p)
    BY <2>1, <2>2 DEF Raise, Running, accessing
  <2>3. ASSUME NEW key \in Key, NEW get \in BOOLEAN, Read(p, key, get) PROVE TypeOK'
    <3>1. got' \subseteq Pass \X Key /\ UNCHANGED store
      BY <2>3 DEF Read
    <3>2. UNCHANGED <<pc, cause>> \/ \E kind \in {"undeclared", "missing"} : Fail(kind, {p}, key)
      BY <2>3 DEF Read
    <3>3. QED
      BY <2>1, <3>1, <3>2 DEF accessing
  <2>4. ASSUME NEW key \in Key, Write(p, key) PROVE TypeOK'
    <3>1. DOMAIN store' \subseteq Key /\ \A j \in DOMAIN store' : store'[j] \in Pass \union {None}
      BY <2>4 DEF Write
    <3>2. UNCHANGED <<pc, cause>> \/ Fail("undeclared", {p}, key)
      BY <2>4 DEF Write
    <3>3. QED
      BY <2>1, <2>4, <3>1, <3>2 DEF accessing, Write
  <2>5. QED
    BY <1>7, <2>2, <2>3, <2>4 DEF Access
<1>8. ASSUME NEW p \in Pass, Return(p) PROVE TypeOK'
  <2>1. /\ pc = "run" /\ ctx # None
        /\ order \in Seq(passes) /\ at \in DOMAIN order /\ p = order[at] /\ p \in passes
    BY <1>8 DEF Return, Running
  <2>2. CASE at = Len(order) \/ StopAfter[ctx] = p
    BY <1>8, <2>1, <2>2 DEF Return
  <2>3. CASE ~(at = Len(order) \/ StopAfter[ctx] = p)
    <3>1. /\ at' = at + 1 /\ done' = done \union {p}
          /\ UNCHANGED <<decl, ctx, store, passes, order, edges, remaining, pc, cause, runs,
                         seeded, got>>
      BY <1>8, <2>3 DEF Return
    <3>2. at + 1 \in DOMAIN order
      BY <2>1, <2>3, NextIndex
    <3>3. at' \in Nat /\ at' \in DOMAIN order' /\ ctx' # None
      BY <2>1, <3>1, <3>2
    <3>4. done' \subseteq passes'
      BY <2>1, <3>1
    <3>5. QED
      BY <3>1, <3>3, <3>4
  <2>4. QED
    BY <2>2, <2>3
<1>9. CASE UNCHANGED vars
  BY <1>9 DEF vars
<1>10. QED
  BY <1>1, <1>2, <1>3, <1>4, <1>5, <1>6, <1>7, <1>8, <1>9 DEF Next, Sort

LEMMA InitIInv == Init => IInv
  BY InitType DEF Init, IInv, SortOK, OrderOK, RunOK

(* The steps of a sort.                                                    *)
LEMMA PlaceStep ==
  ASSUME IInv, NEW p \in Pass, Place(p)
  PROVE  SortOK' /\ OrderOK' /\ RunOK'
<1> PICK n \in Nat : n = Len(order)
  BY DEF IInv, TypeOK
<1>1. /\ pc = "sort" /\ pc' = pc /\ p \in remaining /\ p \in passes /\ order \in Seq(passes)
      /\ edges[p] \intersect remaining = {}
      /\ \A q \in Ready : q = p \/ Precedes(p, q)
      /\ order' = Append(order, p) /\ remaining' = remaining \ {p}
      /\ UNCHANGED <<decl, ctx, store, passes, edges, seeded, got, done>>
  BY DEF Place, Ready, sorting, history, IInv, TypeOK
<1>2. /\ n \in Nat /\ DOMAIN order = 1 .. n /\ DOMAIN order' = 1 .. n + 1
      /\ \A i \in 1 .. n : order'[i] = order[i]
      /\ order'[n + 1] = p
  BY <1>1, AppendFacts
<1>3. \A i \in 1 .. n + 1 : Earlier(i)' = Earlier(i)
  BY <1>2 DEF Earlier
<1>4. Earlier(n + 1) = {order[i] : i \in DOMAIN order}
  BY <1>2 DEF Earlier
<1>5. /\ ctx # None /\ passes # {} /\ got = {} /\ done = {}
      /\ edges = [q \in passes |-> Before(q, seeded)]
      /\ remaining = passes \ Earlier(n + 1)
      /\ \A i \in 1 .. n :
           /\ edges[order[i]] \subseteq Earlier(i)
           /\ \A q \in passes \ Earlier(i + 1) :
                Precedes(order[i], q) \/ ~(edges[q] \subseteq Earlier(i))
  BY <1>1, <1>2, <1>4 DEF IInv, SortOK
<1>6. edges[p] \subseteq Earlier(n + 1)
  <2>1. edges[p] \subseteq passes
    BY <1>1, <1>5, BeforeType DEF IInv, TypeOK
  <2>2. QED
    BY <1>1, <1>5, <2>1
<1>7. \A q \in passes \ Earlier(n + 2)' : Precedes(p, q) \/ ~(edges[q] \subseteq Earlier(n + 1))
  <2> SUFFICES ASSUME NEW q \in passes \ Earlier(n + 2)', edges[q] \subseteq Earlier(n + 1)
               PROVE  Precedes(p, q)
    OBVIOUS
  <2>1. p \in Earlier(n + 2)' /\ Earlier(n + 1) \subseteq Earlier(n + 2)'
    BY <1>2 DEF Earlier
  <2>2. q \in Ready /\ q # p
    BY <1>5, <2>1 DEF Ready
  <2>3. QED
    BY <1>1, <2>2
<1>8. \A i \in 1 .. n : Earlier(i + 1)' = Earlier(i + 1)
  BY <1>2, <1>3
<1>9. \A q, r : Precedes(q, r)' = Precedes(q, r)
  BY <1>1, BeforeKept
<1>10. SortOK'
  <2>1. edges' = [q \in passes' |-> Before(q, seeded)']
    BY <1>1, <1>5 DEF Before, Producers
  <2>2. remaining' = passes' \ {order'[i] : i \in DOMAIN order'}
    BY <1>1, <1>2, <1>4, <1>5
  <2>3. ASSUME NEW i \in DOMAIN order' PROVE edges'[order'[i]] \subseteq Earlier(i)'
    <3>1. CASE i = n + 1
      BY <1>1, <1>2, <1>3, <1>6, <3>1
    <3>2. CASE i \in 1 .. n
      BY <1>1, <1>2, <1>3, <1>5, <3>2
    <3>3. QED
      BY <1>2, <3>1, <3>2
  <2>4. ASSUME NEW i \in DOMAIN order', NEW q \in passes' \ Earlier(i + 1)'
        PROVE  Precedes(order[i], q)' \/ ~(edges'[q] \subseteq Earlier(i)')
    <3>1. CASE i = n + 1
      <4>1. q \in passes \ Earlier(n + 2)'
        BY <1>1, <1>2, <2>4, <3>1
      <4>2. Precedes(p, q) \/ ~(edges[q] \subseteq Earlier(n + 1))
        BY <1>7, <4>1
      <4>3. QED
        BY <1>1, <1>2, <1>3, <3>1, <4>2 DEF Precedes
    <3>2. CASE i \in 1 .. n
      <4>1. q \in passes \ Earlier(i + 1)
        BY <1>1, <1>8, <2>4, <3>2
      <4>2. Precedes(order[i], q) \/ ~(edges[q] \subseteq Earlier(i))
        BY <1>5, <3>2, <4>1
      <4>3. QED
        BY <1>1, <1>2, <1>3, <3>2, <4>2 DEF Precedes
    <3>3. QED
      BY <1>2, <3>1, <3>2
  <2>5. QED
    BY <1>1, <1>5, <2>1, <2>2, <2>3, <2>4 DEF SortOK
<1>11. OrderOK'
  <2>1. ASSUME NEW i \in 1 .. n + 1, NEW j \in 1 .. n + 1, order'[i] = order'[j] PROVE i = j
    <3>1. \A l \in 1 .. n : order[l] # p
      BY <1>1, <1>2, <1>4, <1>5
    <3>2. QED
      BY <1>2, <2>1, <3>1 DEF IInv, OrderOK
  <2>2. QED
    BY <1>1, <1>2, <2>1 DEF IInv, OrderOK
<1>12. QED
  BY <1>1, <1>10, <1>11 DEF RunOK

LEMMA SortedStep == IInv /\ Sorted => SortOK' /\ OrderOK' /\ RunOK'
<1> SUFFICES ASSUME IInv, Sorted PROVE SortOK' /\ OrderOK' /\ RunOK'
  OBVIOUS
<1>1. /\ pc = "sort" /\ pc' = "run" /\ at' = 1
      /\ UNCHANGED <<decl, ctx, store, passes, edges, order, seeded, got, done>>
  BY DEF Sorted, sorting, history
<1>2. /\ got = {} /\ done = {} /\ edges = [q \in passes |-> Before(q, seeded)]
      /\ \A i \in DOMAIN order :
           /\ edges[order[i]] \subseteq Earlier(i)
           /\ \A q \in passes \ Earlier(i + 1) :
                Precedes(order[i], q) \/ ~(edges[q] \subseteq Earlier(i))
  BY <1>1 DEF IInv, SortOK
<1>3. order \in Seq(passes) /\ \A i, j \in DOMAIN order : order[i] = order[j] => i = j
  BY DEF IInv, TypeOK, OrderOK
<1>4. ASSUME NEW i \in DOMAIN order PROVE Before(order[i], seeded) \subseteq Earlier(i)
  <2>1. order[i] \in passes
    BY <1>3
  <2>2. QED
    BY <1>2, <2>1
<1>5. ASSUME NEW i \in DOMAIN order, NEW j \in DOMAIN order, i < j
      PROVE  Precedes(order[i], order[j]) \/ ~(edges[order[j]] \subseteq Earlier(i))
  <2>1. order[j] \in passes \ Earlier(i + 1)
    BY <1>3, <1>5 DEF Earlier
  <2>2. QED
    BY <1>2, <2>1
<1>7. OrderOK'
  <2>1. seeded' \subseteq DOMAIN store'
    BY <1>1 DEF IInv, OrderOK
  <2>2. \A i \in DOMAIN order' : Before(order[i], seeded)' \subseteq Earlier(i)'
    BY <1>1, <1>4 DEF Before, Producers, Earlier
  <2>3. \A i, j \in DOMAIN order' :
          i < j => Precedes(order[i], order[j])' \/ ~(edges[order[j]]' \subseteq Earlier(i)')
    BY <1>1, <1>5 DEF Precedes, Earlier
  <2>4. QED
    BY <1>1, <1>3, <2>1, <2>2, <2>3 DEF OrderOK
<1>8. Earlier(1)' = {}
  BY DEF Earlier
<1>9. QED
  BY <1>1, <1>2, <1>7, <1>8 DEF SortOK, RunOK

LEMMA StartStep == IInv /\ Start => SortOK' /\ OrderOK' /\ RunOK'
<1> SUFFICES ASSUME IInv, Start PROVE SortOK' /\ OrderOK' /\ RunOK'
  OBVIOUS
<1>1. /\ pc # "sort" /\ ctx # None /\ passes # {} /\ seeded' = DOMAIN store
      /\ got' = {} /\ done' = {}
      /\ UNCHANGED <<decl, ctx, store, passes, order>>
  BY DEF Start, Idle
<1>2. CASE order = <<>>
  <2>1. pc' # "run"
    BY <1>2 DEF Start, Fail
  <2>2. pc' = "sort" => /\ edges' = [p \in passes |-> Before(p, seeded')]
                        /\ remaining' = passes
    BY <1>1, <1>2 DEF Start, Fail
  <2>3. edges' = [p \in passes |-> Before(p, seeded')]
          => edges' = [p \in passes' |-> Before(p, seeded)']
    BY <1>1 DEF Before, Producers
  <2>4. QED
    BY <1>1, <1>2, <2>1, <2>2, <2>3 DEF SortOK, OrderOK, RunOK
<1>3. CASE order # <<>>
  <2>1. pc' = "run" /\ at' = 1 /\ UNCHANGED edges
    BY <1>3 DEF Start
  <2>2. ASSUME ~Reuse, NEW i \in DOMAIN order
        PROVE  /\ Before(order[i], seeded') \subseteq Earlier(i)
               /\ \A j \in DOMAIN order : i < j =>
                    Precedes(order[i], order[j]) \/ ~(edges[order[j]] \subseteq Earlier(i))
    <3>1. order[i] \in Pass /\ seeded \subseteq DOMAIN store /\ DOMAIN store \subseteq Key
      BY DEF IInv, TypeOK, OrderOK
    <3>2. Before(order[i], seeded') \subseteq Before(order[i], seeded)
      BY <1>1, <3>1, BeforeShrinks
    <3>3. QED
      BY <1>1, <2>2, <3>2 DEF IInv, OrderOK
  <2>3. OrderOK'
    BY <1>1, <2>1, <2>2 DEF IInv, OrderOK, Before, Producers, Precedes, Earlier
  <2>4. QED
    BY <1>1, <2>1, <2>3 DEF SortOK, RunOK, Earlier
<1>4. QED
  BY <1>2, <1>3

(* The steps of a pass leave the order and its dependencies alone.         *)
LEMMA PassStep ==
  ASSUME IInv, NEW p \in Pass, Access(p) \/ Return(p)
  PROVE  SortOK' /\ OrderOK' /\ RunOK'
<1>1. /\ pc = "run" /\ pc' # "sort" /\ p = order[at] /\ at \in DOMAIN order
      /\ order \in Seq(passes) /\ at \in Nat
      /\ DOMAIN store \subseteq DOMAIN store'
      /\ UNCHANGED <<decl, passes, order, edges, seeded>>
  <2>1. CASE Return(p)
    BY <2>1 DEF Return, Running, pipeline, IInv, TypeOK
  <2>2. CASE Access(p)
    BY <2>2 DEF Access, Raise, Read, Write, Fail, Running, accessing, pipeline, IInv, TypeOK
  <2>3. QED
    BY <2>1, <2>2
<1>2. OrderOK'
  <2>1. seeded' \subseteq DOMAIN store'
    BY <1>1 DEF IInv, OrderOK
  <2>2. \A i, j \in DOMAIN order' : order'[i] = order'[j] => i = j
    BY <1>1 DEF IInv, OrderOK
  <2>3. ASSUME ~Reuse
        PROVE  \A i \in DOMAIN order' : Before(order[i], seeded)' \subseteq Earlier(i)'
    <3>1. \A i \in DOMAIN order : Before(order[i], seeded) \subseteq Earlier(i)
      BY <1>1, <2>3 DEF IInv, OrderOK
    <3>2. QED
      BY <1>1, <3>1 DEF Before, Producers, Earlier
  <2>4. ASSUME ~Reuse
        PROVE  \A i, j \in DOMAIN order' :
                 i < j => Precedes(order[i], order[j])' \/ ~(edges[order[j]]' \subseteq Earlier(i)')
    <3>1. \A i, j \in DOMAIN order :
            i < j => Precedes(order[i], order[j]) \/ ~(edges[order[j]] \subseteq Earlier(i))
      BY <1>1, <2>4 DEF IInv, OrderOK
    <3>2. QED
      BY <1>1, <3>1 DEF Precedes, Earlier
  <2>5. QED
    BY <2>1, <2>2, <2>3, <2>4 DEF OrderOK
<1>3. \A i : Earlier(i)' = Earlier(i)
  BY <1>1 DEF Earlier
<1>4. done = Earlier(at) /\ Earlier(at + 1) = Earlier(at) \union {p}
  BY <1>1 DEF IInv, RunOK, Earlier
<1>5. CASE Access(p)
  <2>1. UNCHANGED <<at, done>>
    BY <1>5 DEF Access, Raise, Read, Write, accessing
  <2>2. \A g \in got' : g \in got \/ (g[1] = p /\ g[2] \in decl[p].reads \union decl[p].optional)
    <3>1. ASSUME NEW key \in Key, NEW get \in BOOLEAN, Read(p, key, get)
          PROVE  got' = got \/ (got' = got \union {<<p, key>>}
                                 /\ key \in decl[p].reads \union decl[p].optional)
      BY <3>1 DEF Read
    <3>2. CASE UNCHANGED got
      BY <3>2
    <3>3. ASSUME NEW key \in Key, NEW get \in BOOLEAN, Read(p, key, get)
          PROVE  \A g \in got' :
                   g \in got \/ (g[1] = p /\ g[2] \in decl[p].reads \union decl[p].optional)
      BY <3>1, <3>3
    <3>4. Raise(p) \/ (\E key \in Key : Write(p, key)) => UNCHANGED got
      BY DEF Raise, Write
    <3>5. QED
      BY <1>5, <3>2, <3>3, <3>4 DEF Access
  <2>3. RunOK'
    BY <1>1, <1>3, <1>4, <2>1, <2>2 DEF IInv, RunOK
  <2>4. QED
    BY <1>1, <1>2, <2>3 DEF SortOK
<1>6. CASE Return(p)
  <2>1. done' = Earlier(at + 1) /\ UNCHANGED got
    BY <1>4, <1>6 DEF Return
  <2>2. pc' = "run" => at' = at + 1
    BY <1>6 DEF Return
  <2>3. Earlier(at + 1) \subseteq Earlier(at + 1 + 1)
    BY <1>1 DEF Earlier
  <2>4. RunOK'
    BY <1>1, <1>3, <2>1, <2>2, <2>3 DEF IInv, RunOK
  <2>5. QED
    BY <1>1, <1>2, <2>4 DEF SortOK
<1>7. QED
  BY <1>5, <1>6

LEMMA NextIInv == IInv /\ [Next]_vars => IInv'
<1> SUFFICES ASSUME IInv, [Next]_vars PROVE SortOK' /\ OrderOK' /\ RunOK'
  BY TypeStep DEF IInv
<1>1. ASSUME NEW c \in Context, NewContext(c) PROVE SortOK' /\ OrderOK' /\ RunOK'
  <2>1. pc' = "idle" /\ seeded' = {} /\ (order' = <<>> \/ (Reuse /\ order' = order))
    BY <1>1, ConstAssumption DEF NewContext
  <2>2. QED
    BY <2>1 DEF IInv, SortOK, OrderOK, RunOK
<1>2. CASE Build
  BY <1>2 DEF Build, SortOK, OrderOK, RunOK
<1>3. CASE Stuck
  BY <1>3 DEF Stuck, Fail, sorting, history, IInv, SortOK, OrderOK, RunOK
<1>4. CASE UNCHANGED vars
  BY <1>4 DEF vars, pipeline, history, IInv, SortOK, OrderOK, RunOK, Before, Producers, Precedes,
              Earlier
<1>5. QED
  BY <1>1, <1>2, <1>3, <1>4, StartStep, PlaceStep, SortedStep, PassStep DEF Next, Sort

LEMMA Invariance == Spec => []IInv
  BY InitIInv, NextIInv, PTL DEF Spec

(* Every state of every behaviour is of the declared types.                *)
THEOREM Typing == Spec => []TypeOK
  BY Invariance, PTL DEF IInv

(* Where a pipeline serves one context, as for_context is meant to be      *)
(* used, order() holds to its promise: every read after the writes that    *)
(* supply it, in runs that are repeated too.                               *)
THEOREM ReadsOrdered ==
  ASSUME Reuse = FALSE
  PROVE  Spec => []ReadsAfterWrites
<1>1. IInv => ReadsAfterWrites
  BY DEF IInv, OrderOK, ReadsAfterWrites, Earlier
<1>2. QED
  BY <1>1, Invariance, PTL

(* The order is the one that phase and name decide: no pass could have     *)
(* come before one that it precedes.                                       *)
THEOREM OrderDecided ==
  ASSUME Reuse = FALSE
  PROVE  Spec => []Deterministic
<1>1. IInv => Deterministic
  BY DEF IInv, OrderOK, Deterministic, Earlier
<1>2. QED
  BY <1>1, Invariance, PTL

(* While a pipeline serves one context, it holds the passes selected for   *)
(* that context.                                                           *)
SelectOK == ~Reuse /\ passes # {} => passes = Selected(ctx)

(* With enable_quirks off no quirk pass ever runs.                         *)
THEOREM PureRuns ==
  ASSUME Reuse = FALSE
  PROVE  Spec => []PureMeansNoQuirk
<1>1. Init => SelectOK
  BY DEF Init, SelectOK
<1>2. SelectOK /\ [Next]_vars => SelectOK'
  <2> SUFFICES ASSUME SelectOK, [Next]_vars PROVE SelectOK'
    OBVIOUS
  <2>1. ASSUME NEW c \in Context, NewContext(c) PROVE SelectOK'
    BY <2>1 DEF NewContext, SelectOK
  <2>2. CASE Build
    BY <2>2 DEF Build, SelectOK, Selected
  <2>3. UNCHANGED <<passes, ctx, decl>> => SelectOK'
    BY DEF SelectOK, Selected
  <2>4. Start \/ Sort => UNCHANGED <<passes, ctx, decl>>
    BY DEF Start, Sort, Place, Stuck, Sorted, sorting
  <2>5. ASSUME NEW p \in Pass, Access(p) \/ Return(p) PROVE UNCHANGED <<passes, ctx, decl>>
    BY <2>5 DEF Access, Raise, Read, Write, Return, accessing, pipeline
  <2>6. UNCHANGED vars => UNCHANGED <<passes, ctx, decl>>
    BY DEF vars, pipeline
  <2>7. QED
    BY <2>1, <2>2, <2>3, <2>4, <2>5, <2>6 DEF Next
<1>3. IInv /\ SelectOK => PureMeansNoQuirk
  BY DEF IInv, TypeOK, SelectOK, Selected, PureMeansNoQuirk
<1>4. QED
  BY <1>1, <1>2, <1>3, Invariance, PTL DEF Spec

(* The run has failed for an artifact that is missing, and all passes that *)
(* promise it have run.                                                    *)
MissOK ==
  cause.kind = "missing" => pc = "failed" /\ (~Reuse => MissingMeansUnwritten)

LEMMA MissingRead ==
  ASSUME IInv, ~Reuse, NEW p \in Pass, NEW k \in Key, NEW get \in BOOLEAN, Read(p, k, get),
         cause'.kind = "missing", cause.kind # "missing"
  PROVE  MissingMeansUnwritten'
<1>1. /\ pc = "run" /\ at \in DOMAIN order /\ p = order[at] /\ k \notin DOMAIN store
      /\ k \in decl[p].reads \union decl[p].optional
      /\ cause' = [kind |-> "missing", who |-> {p}, key |-> k]
      /\ UNCHANGED <<decl, passes, done>>
  BY DEF Read, Fail, Has, Running, accessing, pipeline, IInv, TypeOK
<1>2. /\ k \notin seeded /\ Before(p, seeded) \subseteq Earlier(at) /\ done = Earlier(at)
  BY <1>1 DEF IInv, OrderOK, RunOK
<1>3. Producers(k) \ {p} \subseteq Before(p, seeded)
  BY <1>1, <1>2 DEF Before
<1>4. Producers(k) \ {p} \subseteq done
  BY <1>2, <1>3
<1>5. QED
  BY <1>1, <1>4 DEF MissingMeansUnwritten, Producers

LEMMA MissStep == IInv /\ MissOK /\ [Next]_vars => MissOK'
<1> SUFFICES ASSUME IInv, MissOK, [Next]_vars, cause'.kind = "missing" PROVE MissOK'
  BY DEF MissOK
<1>1. CASE UNCHANGED vars
  BY <1>1 DEF vars, pipeline, history, MissOK, MissingMeansUnwritten, Producers
<1>2. (\E c \in Context : NewContext(c)) \/ Build \/ Start => FALSE
  BY DEF NewContext, Build, Start, NoCause, Fail
<1>3. CASE Sort
  <2>1. cause.kind # "missing"
    BY <1>3 DEF Sort, Place, Stuck, Sorted, MissOK
  <2>2. QED
    BY <1>3, <2>1 DEF Sort, Place, Stuck, Sorted, Fail, sorting
<1>4. ASSUME NEW p \in Pass, Access(p) \/ Return(p) PROVE MissOK'
  <2>1. cause.kind # "missing"
    BY <1>4 DEF Access, Raise, Read, Write, Return, Running, MissOK
  <2>2. PICK k \in Key, get \in BOOLEAN : Read(p, k, get)
    <3>1. ~Raise(p) /\ ~Return(p)
      BY <2>1 DEF Raise, Return, Fail
    <3>2. ASSUME NEW k \in Key PROVE ~Write(p, k)
      BY <2>1 DEF Write, Fail
    <3>3. QED
      BY <1>4, <3>1, <3>2 DEF Access
  <2>3. pc' = "failed"
    BY <2>1, <2>2 DEF Read, Fail
  <2>4. ~Reuse => MissingMeansUnwritten'
    BY <2>1, <2>2, MissingRead
  <2>5. QED
    BY <2>3, <2>4 DEF MissOK
<1>5. QED
  BY <1>1, <1>2, <1>3, <1>4 DEF Next

(* MissingArtifact is raised only when every pass that promised the        *)
(* artifact has returned without it.                                       *)
THEOREM MissingExplained ==
  ASSUME Reuse = FALSE
  PROVE  Spec => []MissingMeansUnwritten
<1>1. Init => MissOK
  BY DEF Init, NoCause, MissOK
<1>2. MissOK => MissingMeansUnwritten
  BY DEF MissOK, MissingMeansUnwritten
<1>3. QED
  BY <1>1, <1>2, MissStep, Invariance, PTL DEF Spec

(* A value that a pass writes has not been read by another pass of the run. *)
LEMMA FreshWrite ==
  ASSUME IInv, ~Reuse, NEW p \in Pass, NEW k \in Key, Write(p, k), k \in decl[p].writes,
         NEW g \in got, g[2] = k, k \notin seeded
  PROVE  g[1] = p
<1> SUFFICES ASSUME g[1] # p PROVE FALSE
  OBVIOUS
<1>1. /\ pc = "run" /\ at \in DOMAIN order /\ p = order[at] /\ at \in Nat
      /\ order \in Seq(passes)
  BY DEF Write, Running, IInv, TypeOK
<1>2. g[1] \in Earlier(at + 1) /\ k \in decl[g[1]].reads \union decl[g[1]].optional
  BY <1>1 DEF IInv, RunOK
<1>3. PICK i \in 1 .. at : g[1] = order[i] /\ i \in DOMAIN order
  BY <1>1, <1>2 DEF Earlier
<1>4. p \in passes
  BY <1>1
<1>5. p \in Before(order[i], seeded)
  BY <1>2, <1>3, <1>4 DEF Before, Producers
<1>6. p \in Earlier(i)
  BY <1>1, <1>3, <1>5 DEF IInv, OrderOK
<1>7. PICK j \in 1 .. i - 1 : p = order[j]
  BY <1>6 DEF Earlier
<1>8. j \in DOMAIN order /\ j # at
  BY <1>1, <1>3, <1>7
<1>9. QED
  BY <1>1, <1>7, <1>8 DEF IInv, OrderOK

(* Nobody works on a value that is replaced behind its back: what a pass   *)
(* read in this run, no other pass of the run writes.                      *)
THEOREM NoStale ==
  ASSUME Reuse = FALSE
  PROVE  Spec => NoStaleRead
<1> DEFINE Fresh(k) ==
      store'[k] # None /\ (k \in DOMAIN store => store[k] # store'[k])
        => \A g \in got : g[2] = k /\ k \notin seeded => g[1] = store'[k]
<1>1. IInv /\ [Next]_vars => [\A k \in DOMAIN store' : Fresh(k)]_vars
  <2> SUFFICES ASSUME IInv, Next, NEW k \in DOMAIN store' PROVE Fresh(k)
    OBVIOUS
  <2>1. ASSUME NEW c \in Context, NewContext(c) PROVE Fresh(k)
    BY <2>1 DEF NewContext
  <2>2. CASE UNCHANGED store
    BY <2>2
  <2>3. ASSUME NEW p \in Pass, NEW j \in Key, Write(p, j) PROVE Fresh(k)
    <3>1. CASE j \in decl[p].writes /\ k = j
      <4>1. store'[k] = p
        BY <2>3, <3>1 DEF Write
      <4>2. QED
        BY <2>3, <3>1, <4>1, FreshWrite
    <3>2. CASE j \in decl[p].writes /\ k # j
      BY <2>3, <3>2 DEF Write
    <3>3. CASE j \notin decl[p].writes
      BY <2>3, <3>3, <2>2 DEF Write
    <3>4. QED
      BY <3>1, <3>2, <3>3
  <2>4. Build \/ Start \/ Sort => UNCHANGED store
    BY DEF Build, Start, Sort, Place, Stuck, Sorted, sorting
  <2>5. ASSUME NEW p \in Pass, Access(p) \/ Return(p)
        PROVE  UNCHANGED store \/ \E j \in Key : Write(p, j)
    BY <2>5 DEF Access, Raise, Read, Return
  <2>6. QED
    BY <2>1, <2>2, <2>3, <2>4, <2>5 DEF Next
<1>2. QED
  BY <1>1, Invariance, PTL DEF NoStaleRead, Spec

(* The refinement: a pass that returns is performed, and the dependencies  *)
(* change only where a new run may begin.                                  *)
need == [p \in Pass |-> IF p \in passes THEN Before(p, seeded) ELSE {}]

LEMMA NeedType == IInv /\ [Next]_vars => need \in [Pass -> SUBSET Pass] /\ need' \in [Pass -> SUBSET Pass]
<1> SUFFICES ASSUME IInv, [Next]_vars
             PROVE  need \in [Pass -> SUBSET Pass] /\ need' \in [Pass -> SUBSET Pass]
  OBVIOUS
<1>1. passes \subseteq Pass /\ passes' \subseteq Pass
  BY NextIInv DEF IInv, TypeOK
<1>2. \A p \in Pass : Before(p, seeded) \subseteq Pass
  BY <1>1 DEF Before, Producers
<1>3. \A p \in Pass : Before(p, seeded)' \subseteq Pass
  BY <1>1 DEF Before, Producers
<1>4. QED
  BY <1>1, <1>2, <1>3 DEF need

(* What passes need does not change unless the passes or the seeds do.     *)
LEMMA NeedKept == UNCHANGED <<decl, passes, seeded>> => UNCHANGED need
  BY DEF need, Before, Producers

LEMMA StepRefines ==
  ASSUME Reuse = FALSE, IInv, [Next]_vars
  PROVE  Abstract!Begin \/ (\E p \in Pass : Abstract!Perform(p)) \/ UNCHANGED <<need, done>>
<1>1. (\E c \in Context : NewContext(c)) \/ Build \/ Start => Abstract!Begin
  <2>1. (\E c \in Context : NewContext(c)) \/ Build \/ Start => done' = {}
    BY DEF NewContext, Build, Start
  <2>2. QED
    BY <2>1, NeedType DEF Abstract!Begin, need
<1>2. Sort => UNCHANGED <<need, done>>
  BY NeedKept DEF Sort, Place, Stuck, Sorted, sorting, history
<1>3. ASSUME NEW p \in Pass, Access(p) PROVE UNCHANGED <<need, done>>
  BY <1>3, NeedKept DEF Access, Raise, Read, Write, accessing, pipeline
<1>4. ASSUME NEW p \in Pass, Return(p) PROVE Abstract!Perform(p)
  <2>1. /\ pc = "run" /\ at \in DOMAIN order /\ p = order[at] /\ at \in Nat
        /\ order \in Seq(passes) /\ p \in passes
        /\ done' = done \union {p} /\ UNCHANGED <<decl, passes, seeded>>
    BY <1>4 DEF Return, Running, pipeline, IInv, TypeOK
  <2>2. done = Earlier(at) /\ Before(p, seeded) \subseteq Earlier(at)
    BY <2>1 DEF IInv, RunOK, OrderOK
  <2>3. p \notin done
    <3> SUFFICES ASSUME NEW j \in 1 .. at - 1, order[j] = p PROVE FALSE
      BY <2>2 DEF Earlier
    <3>1. j \in DOMAIN order /\ j # at
      BY <2>1
    <3>2. QED
      BY <2>1, <3>1 DEF IInv, OrderOK
  <2>4. UNCHANGED need
    BY <2>1, NeedKept
  <2>5. QED
    BY <2>1, <2>2, <2>3, <2>4 DEF Abstract!Perform, need
<1>5. CASE UNCHANGED vars
  BY <1>5, NeedKept DEF vars, pipeline, history
<1>6. QED
  BY <1>1, <1>2, <1>3, <1>4, <1>5 DEF Next

(* A pipeline of one context is a Dataflow: each pass runs at most once in *)
(* a run, and never before what it needs.                                  *)
THEOREM Refinement ==
  ASSUME Reuse = FALSE
  PROVE  Spec => ImplementsDataflow
<1>1. Init => Abstract!Init
  BY DEF Init, Abstract!Init, need
<1>2. IInv /\ [Next]_vars => [Abstract!Next]_(Abstract!vars)
  BY StepRefines DEF Abstract!Next, Abstract!vars, need
<1>3. QED
  BY <1>1, <1>2, Invariance, PTL DEF ImplementsDataflow, Abstract!Spec, Spec

-----------------------------------------------------------------------------
(* The induction that the least counterexample gives.                      *)
LEMMA LeastElement ==
  ASSUME NEW T \in SUBSET Nat, T # {}
  PROVE  \E x \in T : \A y \in T : x <= y
<1> DEFINE R == OpToRel(<, Nat)
<1>1. IsWellFoundedOn(R, Nat)
  BY NatLessThanWellFounded, Zenon
<1>2. ASSUME NEW a \in Nat, NEW b \in Nat, a < b PROVE <<a, b>> \in R
  BY <1>2, Zenon DEF OpToRel
<1> HIDE DEF R
<1>3. PICK x \in T : \A y \in T : ~(<<y, x>> \in R)
  BY <1>1, WFMin, Zenon
<1>4. ASSUME NEW y \in T PROVE x <= y
  <2>1. ~(y < x)
    BY <1>2, <1>3
  <2>2. QED
    BY <2>1
<1>5. QED
  BY <1>4

(* A set of numbers that holds 0 and with each number the next holds all.  *)
LEMMA Induction ==
  ASSUME NEW T \in SUBSET Nat, 0 \in T, \A n \in T : n + 1 \in T
  PROVE  T = Nat
<1> DEFINE Rest == Nat \ T
<1>1. ASSUME Rest # {} PROVE FALSE
  <2>1. Rest \in SUBSET Nat
    OBVIOUS
  <2>2. PICK x \in Rest : \A y \in Rest : x <= y
    <3> HIDE DEF Rest
    <3>1. QED
      BY <1>1, <2>1, LeastElement
  <2>3. x \in Nat /\ x \notin T /\ x # 0
    BY <2>2
  <2>4. x - 1 \in Nat /\ ~(x <= x - 1) /\ (x - 1) + 1 = x
    BY <2>3
  <2>5. x - 1 \in T
    BY <2>2, <2>4
  <2>6. QED
    BY <2>3, <2>4, <2>5
<1>2. QED
  BY <1>1

(* Iteration: a function from a set to itself has an orbit from any start, *)
(* built from its finite prefixes.                                         *)
Prefix(S, next, start, h, n) ==
  /\ h \in [0 .. n -> S] /\ h[0] = start
  /\ \A i \in 0 .. n : i < n => h[i + 1] = next[h[i]]

LEMMA PrefixExists ==
  ASSUME NEW S, NEW next \in [S -> S], NEW start \in S
  PROVE  \A n \in Nat : \E h : Prefix(S, next, start, h, n)
<1> DEFINE T == {n \in Nat : \E h : Prefix(S, next, start, h, n)}
<1>1. 0 \in T
  <2>1. Prefix(S, next, start, [i \in 0 .. 0 |-> start], 0)
    BY DEF Prefix
  <2>2. QED
    BY <2>1
<1>2. ASSUME NEW n \in T PROVE n + 1 \in T
  <2>1. n \in Nat /\ n + 1 \in Nat
    OBVIOUS
  <2>2. PICK h : Prefix(S, next, start, h, n)
    OBVIOUS
  <2> DEFINE g == [i \in 0 .. n + 1 |-> IF i = n + 1 THEN next[h[n]] ELSE h[i]]
  <2>3. /\ h \in [0 .. n -> S] /\ h[0] = start
        /\ \A i \in 0 .. n : i < n => h[i + 1] = next[h[i]]
    BY <2>2 DEF Prefix
  <2>4. h[n] \in S /\ next[h[n]] \in S
    BY <2>1, <2>3
  <2>5. g \in [0 .. n + 1 -> S]
    <3>1. ASSUME NEW i \in 0 .. n + 1, i # n + 1 PROVE i \in 0 .. n
      BY <2>1, <3>1
    <3>2. QED
      BY <2>3, <2>4, <3>1
  <2>6. g[0] = start
    BY <2>1, <2>3
  <2>7. ASSUME NEW i \in 0 .. n + 1, i < n + 1 PROVE g[i + 1] = next[g[i]]
    <3>1. i \in 0 .. n /\ i + 1 \in 0 .. n + 1 /\ g[i] = h[i]
      BY <2>1, <2>7
    <3>2. CASE i = n
      BY <3>1, <3>2
    <3>3. CASE i # n
      <4>1. i < n /\ i + 1 # n + 1 /\ g[i + 1] = h[i + 1]
        BY <2>1, <3>1, <3>3
      <4>2. QED
        BY <2>3, <3>1, <4>1
    <3>4. QED
      BY <3>2, <3>3
  <2> HIDE DEF g
  <2>8. Prefix(S, next, start, g, n + 1)
    BY <2>5, <2>6, <2>7 DEF Prefix
  <2>9. QED
    BY <2>1, <2>8
<1>3. T = Nat
  <2> HIDE DEF T
  <2>1. T \in SUBSET Nat
    BY DEF T
  <2>2. QED
    BY <1>1, <1>2, <2>1, Induction
<1>4. QED
  BY <1>3

LEMMA PrefixUnique ==
  ASSUME NEW S, NEW next \in [S -> S], NEW start \in S,
         NEW m \in Nat, NEW n \in Nat, m <= n,
         NEW g, Prefix(S, next, start, g, m), NEW h, Prefix(S, next, start, h, n)
  PROVE  \A i \in 0 .. m : g[i] = h[i]
<1> DEFINE T == {i \in Nat : i <= m => g[i] = h[i]}
<1>1. 0 \in T
  BY DEF Prefix
<1>2. ASSUME NEW i \in T PROVE i + 1 \in T
  <2>1. i \in Nat /\ i + 1 \in Nat /\ (i <= m => g[i] = h[i])
    OBVIOUS
  <2>2. ASSUME i + 1 <= m PROVE g[i + 1] = h[i + 1]
    <3>1. i \in 0 .. m /\ i < m /\ i \in 0 .. n /\ i < n /\ i <= m
      BY <2>1, <2>2
    <3>2. g[i + 1] = next[g[i]]
      BY <3>1 DEF Prefix
    <3>3. h[i + 1] = next[h[i]]
      BY <3>1 DEF Prefix
    <3>4. QED
      BY <2>1, <3>1, <3>2, <3>3
  <2>3. QED
    BY <2>1, <2>2
<1>3. T = Nat
  <2> HIDE DEF T
  <2>1. T \in SUBSET Nat
    BY DEF T
  <2>2. QED
    BY <1>1, <1>2, <2>1, Induction
<1>4. QED
  BY <1>3

IsOrbit(S, next, start, f) ==
  f \in [Nat -> S] /\ f[0] = start /\ \A i \in Nat : f[i + 1] = next[f[i]]

LEMMA Orbit ==
  ASSUME NEW S, NEW next \in [S -> S], NEW start \in S
  PROVE  \E f : IsOrbit(S, next, start, f)
<1> DEFINE H(n) == CHOOSE h : Prefix(S, next, start, h, n)
           f == [n \in Nat |-> H(n)[n]]
<1>1. \A n \in Nat : Prefix(S, next, start, H(n), n)
  BY PrefixExists
<1> HIDE DEF H
<1>2. ASSUME NEW n \in Nat PROVE f[n] \in S
  <2>1. H(n) \in [0 .. n -> S] /\ n \in 0 .. n
    BY <1>1 DEF Prefix
  <2>2. QED
    BY <2>1
<1>3. f[0] = start
  BY <1>1 DEF Prefix
<1>4. ASSUME NEW i \in Nat PROVE f[i + 1] = next[f[i]]
  <2>1. i + 1 \in Nat /\ i <= i + 1 /\ i \in 0 .. i /\ i \in 0 .. i + 1 /\ i < i + 1
    OBVIOUS
  <2>2. H(i + 1)[i + 1] = next[H(i + 1)[i]]
    BY <1>1, <2>1 DEF Prefix
  <2>3. H(i)[i] = H(i + 1)[i]
    BY <1>1, <2>1, PrefixUnique
  <2>4. QED
    BY <2>1, <2>2, <2>3
<1>5. f \in [Nat -> S]
  BY <1>2
<1> HIDE DEF f
<1>6. QED
  BY <1>3, <1>4, <1>5 DEF IsOrbit

-----------------------------------------------------------------------------
(* The cycle that CyclicDependency names.                                  *)
LEMMA LeastOf ==
  ASSUME NEW S \in SUBSET Nat, S # {}
  PROVE  Least(S) \in S
<1>1. \E p \in S : \A q \in S : p <= q
  BY LeastElement
<1>2. QED
  BY <1>1 DEF Least

(* The first open dependency of each pass that is left.                    *)
Onward == [p \in remaining |-> Least(edges[p] \intersect remaining)]

LEMMA OnwardFacts ==
  ASSUME remaining \in SUBSET Nat, Ready = {}
  PROVE  Onward \in [remaining -> remaining] /\ \A p \in remaining : Onward[p] \in edges[p]
<1>1. ASSUME NEW p \in remaining
      PROVE  Least(edges[p] \intersect remaining) \in edges[p] \intersect remaining
  <2>1. edges[p] \intersect remaining # {}
    BY DEF Ready
  <2>2. edges[p] \intersect remaining \in SUBSET Nat
    OBVIOUS
  <2>3. QED
    BY <2>1, <2>2, LeastOf
<1>2. QED
  BY <1>1 DEF Onward

(* When nothing is ready the walk never ends: it stays in what remains and *)
(* goes from a pass to one of its dependencies.                            *)
LEMMA WalkGoesOn ==
  ASSUME remaining \in SUBSET Nat, Ready = {}, NEW start \in remaining
  PROVE  \A i \in Nat : /\ Walk(start)[i] \in remaining
                        /\ Walk(start)[i + 1] \in edges[Walk(start)[i]]
                        /\ Walk(start)[i + 1] = Onward[Walk(start)[i]]
<1> DEFINE Step(w) == [i \in Nat |-> IF i = 0 THEN start
                                     ELSE Least(edges[w[i - 1]] \intersect remaining)]
           W == CHOOSE w : w = Step(w)
<1>1. Onward \in [remaining -> remaining] /\ \A p \in remaining : Onward[p] \in edges[p]
  BY OnwardFacts
<1>2. \A p \in remaining : Onward[p] = Least(edges[p] \intersect remaining)
  BY DEF Onward
<1>3. PICK f \in [Nat -> remaining] : f[0] = start /\ \A i \in Nat : f[i + 1] = Onward[f[i]]
  <2>1. \E f : IsOrbit(remaining, Onward, start, f)
    BY <1>1, Orbit
  <2>2. QED
    BY <2>1 DEF IsOrbit
<1>4. f = Step(f)
  <2>1. ASSUME NEW i \in Nat, i # 0
        PROVE  f[i] = Least(edges[f[i - 1]] \intersect remaining)
    <3>1. i - 1 \in Nat /\ (i - 1) + 1 = i
      BY <2>1
    <3>2. f[i] = Onward[f[i - 1]] /\ f[i - 1] \in remaining
      BY <1>3, <3>1
    <3>3. QED
      BY <1>2, <3>2
  <2>2. \A i \in Nat : f[i] = IF i = 0 THEN start ELSE Least(edges[f[i - 1]] \intersect remaining)
    BY <1>3, <2>1
  <2>3. QED
    BY <1>3, <2>2
<1>5. W = Step(W)
  <2> HIDE DEF Step
  <2>1. QED
    BY <1>4
<1>6. Walk(start) = W
  BY DEF Walk
<1> HIDE DEF W
<1>7. W[0] = start /\ \A i \in Nat : W[i + 1] = Least(edges[W[i]] \intersect remaining)
  <2>1. \A i \in Nat : W[i] = IF i = 0 THEN start ELSE Least(edges[W[i - 1]] \intersect remaining)
    BY <1>5
  <2>2. ASSUME NEW i \in Nat PROVE W[i + 1] = Least(edges[W[i]] \intersect remaining)
    <3>1. i + 1 \in Nat /\ i + 1 # 0 /\ (i + 1) - 1 = i
      OBVIOUS
    <3>2. QED
      BY <2>1, <3>1
  <2>3. QED
    BY <2>1, <2>2
<1> DEFINE T == {i \in Nat : W[i] \in remaining}
<1>8. T = Nat
  <2>1. 0 \in T
    BY <1>7
  <2>2. ASSUME NEW i \in T PROVE i + 1 \in T
    <3>1. i \in Nat /\ i + 1 \in Nat /\ W[i] \in remaining
      OBVIOUS
    <3>2. W[i + 1] = Onward[W[i]]
      BY <1>2, <1>7, <3>1
    <3>3. QED
      BY <1>1, <3>1, <3>2
  <2>3. T \in SUBSET Nat
    OBVIOUS
  <2> HIDE DEF T
  <2>4. QED
    BY <2>1, <2>2, <2>3, Induction
<1>9. ASSUME NEW i \in Nat
      PROVE  W[i] \in remaining /\ W[i + 1] \in edges[W[i]] /\ W[i + 1] = Onward[W[i]]
  <2>1. W[i] \in remaining
    BY <1>8
  <2>2. W[i + 1] = Onward[W[i]]
    BY <1>2, <1>7, <2>1
  <2>3. QED
    BY <1>1, <2>1, <2>2
<1>10. QED
  BY <1>6, <1>9

(* It comes back to a pass within as many steps as there are passes left,  *)
(* and from there on it repeats.                                           *)
LEMMA WalkRepeats ==
  ASSUME remaining \in SUBSET Nat, IsFiniteSet(remaining), Ready = {}, NEW start \in remaining
  PROVE  LET n == Cardinality(remaining)
         IN  \E d \in 1 .. n : \A k \in Nat : k >= n => Walk(start)[k + d] = Walk(start)[k]
<1> DEFINE n == Cardinality(remaining)
           w == Walk(start)
<1>1. n \in Nat
  BY FS_CardinalityType
<1>2. \A i \in Nat : w[i] \in remaining /\ w[i + 1] = Onward[w[i]]
  BY WalkGoesOn
<1> HIDE DEF n, w
<1>3. \E i, j \in 0 .. n : i # j /\ w[i] = w[j]
  <2> DEFINE f == [i \in 0 .. n |-> w[i]]
  <2>1. f \in [0 .. n -> remaining]
    <3>1. \A i \in 0 .. n : i \in Nat
      BY <1>1
    <3>2. QED
      BY <1>2, <3>1
  <2>2. IsFiniteSet(0 .. n) /\ Cardinality(0 .. n) = n + 1
    BY <1>1, FS_Interval
  <2>3. Cardinality(remaining) < Cardinality(0 .. n)
    BY <1>1, <2>2 DEF n
  <2>4. \E i, j \in 0 .. n : i # j /\ f[i] = f[j]
    <3> HIDE DEF f
    <3>1. QED
      BY <2>1, <2>2, <2>3, FS_PigeonHole
  <2>5. QED
    BY <2>4
<1>4. PICK i \in 0 .. n, j \in 0 .. n : i < j /\ w[i] = w[j]
  BY <1>1, <1>3
<1> DEFINE d == j - i
           T == {k \in Nat : w[i + k + d] = w[i + k]}
<1>5. d \in 1 .. n /\ i \in Nat /\ i <= n /\ i + d = j /\ d \in Nat
  BY <1>1, <1>4
<1> HIDE DEF d
<1>6. T = Nat
  <2>1. 0 \in T
    <3>1. i + 0 + d = j /\ i + 0 = i
      BY <1>5
    <3>2. QED
      BY <1>4, <3>1
  <2>2. ASSUME NEW k \in T PROVE k + 1 \in T
    <3>1. k \in Nat /\ w[i + k + d] = w[i + k]
      OBVIOUS
    <3>2. /\ i + k \in Nat /\ i + k + d \in Nat
          /\ i + (k + 1) = (i + k) + 1 /\ i + (k + 1) + d = (i + k + d) + 1
      BY <1>5, <3>1
    <3>3. w[(i + k + d) + 1] = w[(i + k) + 1]
      <4>1. ASSUME NEW a \in Nat, NEW b \in Nat, w[a] = w[b] PROVE w[a + 1] = w[b + 1]
        BY <1>2, <4>1
      <4>2. QED
        BY <3>1, <3>2, <4>1
    <3>4. QED
      BY <3>1, <3>2, <3>3
  <2>3. T \in SUBSET Nat
    OBVIOUS
  <2> HIDE DEF T
  <2>4. QED
    BY <2>1, <2>2, <2>3, Induction
<1>7. ASSUME NEW k \in Nat, k >= n PROVE w[k + d] = w[k]
  <2>1. k - i \in Nat /\ i + (k - i) = k
    BY <1>1, <1>5, <1>7
  <2>2. k - i \in T
    BY <1>6, <2>1
  <2>3. w[i + (k - i) + d] = w[i + (k - i)]
    BY <2>2
  <2>4. QED
    BY <2>1, <2>3
<1>8. QED
  BY <1>5, <1>7 DEF n, w

(* What CycleIsReal says of the passes that are named.                     *)
IsCycle(C) ==
  /\ C # {}
  /\ \A p \in C : \E q \in C : q \in edges[p]
  /\ \A q \in C : \E p \in C : q \in edges[p]

LEMMA WalkFindsCycle ==
  ASSUME remaining \in SUBSET Nat, IsFiniteSet(remaining), Ready = {}, NEW start \in remaining
  PROVE  IsCycle(Cycle(start))
<1> DEFINE n == Cardinality(remaining)
           w == Walk(start)
           C == Cycle(start)
<1>1. n \in Nat
  BY FS_CardinalityType
<1>2. \A i \in Nat : w[i + 1] \in edges[w[i]]
  BY WalkGoesOn
<1>3. PICK d \in 1 .. n : \A k \in Nat : k >= n => w[k + d] = w[k]
  BY WalkRepeats
<1>4. C = {w[i] : i \in n .. 2 * n}
  BY DEF Cycle
<1> HIDE DEF n, w, C
<1>5. \A i \in Nat : n <= i /\ i <= 2 * n => w[i] \in C
  <2>1. \A i \in Nat : n <= i /\ i <= 2 * n => i \in n .. 2 * n
    BY <1>1
  <2>2. QED
    BY <1>4, <2>1
<1>6. ASSUME NEW p \in C
      PROVE  (\E q \in C : q \in edges[p]) /\ (\E q \in C : p \in edges[q])
  <2>1. PICK k \in n .. 2 * n : p = w[k]
    BY <1>4
  <2>2. k \in Nat /\ n <= k /\ k <= 2 * n /\ d \in Nat /\ 1 <= d /\ d <= n
    BY <1>1, <2>1
  <2>3. \E q \in C : q \in edges[p]
    <3>1. CASE k < 2 * n
      <4>1. k + 1 \in Nat /\ n <= k + 1 /\ k + 1 <= 2 * n
        BY <1>1, <2>2, <3>1
      <4>2. QED
        BY <1>2, <1>5, <2>1, <2>2, <4>1
    <3>2. CASE k = 2 * n
      <4> DEFINE m == (2 * n + 1) - d
      <4>1. m \in Nat /\ n <= m /\ m <= 2 * n /\ m + d = k + 1 /\ k + 1 \in Nat
        BY <1>1, <2>2, <3>2
      <4> HIDE DEF m
      <4>2. w[k + 1] = w[m] /\ w[m] \in C
        BY <1>1, <1>3, <1>5, <4>1
      <4>3. QED
        BY <1>2, <2>1, <2>2, <4>2
    <3>3. QED
      BY <2>2, <3>1, <3>2, <1>1
  <2>4. \E q \in C : p \in edges[q]
    <3>1. CASE k > n
      <4>1. k - 1 \in Nat /\ n <= k - 1 /\ k - 1 <= 2 * n /\ (k - 1) + 1 = k
        BY <1>1, <2>2, <3>1
      <4>2. w[k - 1] \in C /\ w[(k - 1) + 1] \in edges[w[k - 1]]
        BY <1>2, <1>5, <4>1
      <4>3. QED
        BY <2>1, <4>1, <4>2
    <3>2. CASE k = n
      <4> DEFINE m == (n + d) - 1
      <4>1. m \in Nat /\ n <= m /\ m <= 2 * n /\ m + 1 = n + d
        BY <1>1, <2>2
      <4> HIDE DEF m
      <4>2. w[n + d] = w[n] /\ w[m] \in C /\ w[m + 1] \in edges[w[m]]
        BY <1>1, <1>2, <1>3, <1>5, <4>1
      <4>3. QED
        BY <2>1, <3>2, <4>1, <4>2
    <3>3. QED
      BY <2>2, <3>1, <3>2, <1>1
  <2>5. QED
    BY <2>3, <2>4
<1>7. C # {}
  <2>1. n <= n /\ n <= 2 * n
    BY <1>1
  <2>2. QED
    BY <1>1, <1>5, <2>1
<1>8. QED
  BY <1>6, <1>7 DEF IsCycle, C

(* The error keeps its meaning while the run is down: nothing sorts.       *)
CycleOK == cause.kind = "cycle" => pc = "failed" /\ IsCycle(cause.who)

LEMMA CycleStep == IInv /\ CycleOK /\ [Next]_vars => CycleOK'
<1> SUFFICES ASSUME IInv, CycleOK, [Next]_vars PROVE CycleOK'
  OBVIOUS
<1> USE DEF Fail, NoCause
<1>1. ASSUME NEW c \in Context, NewContext(c) PROVE CycleOK'
  BY <1>1 DEF NewContext, CycleOK
<1>2. CASE Build
  BY <1>2 DEF Build, CycleOK
<1>3. CASE Start
  BY <1>3 DEF Start, CycleOK
<1>4. ASSUME NEW p \in Pass, Place(p) PROVE CycleOK'
  BY <1>4 DEF Place, CycleOK
<1>5. CASE Sorted
  BY <1>5 DEF Sorted, CycleOK
<1>6. CASE Stuck
  <2>1. PICK start \in remaining : cause'.kind = "cycle" /\ cause'.who = Cycle(start)
    BY <1>6 DEF Stuck
  <2>2. pc' = "failed" /\ Ready = {} /\ edges' = edges
    BY <1>6 DEF Stuck, sorting
  <2>3. remaining \in SUBSET Nat /\ IsFiniteSet(remaining)
    <3>1. remaining \subseteq Pass
      BY DEF IInv, TypeOK
    <3>2. QED
      BY <3>1, ConstAssumption, FS_Subset
  <2>4. IsCycle(Cycle(start))
    BY <2>2, <2>3, WalkFindsCycle
  <2>5. QED
    BY <2>1, <2>2, <2>4 DEF CycleOK, IsCycle
<1>7. ASSUME NEW p \in Pass, Access(p) PROVE CycleOK'
  <2>1. pc = "run" /\ edges' = edges
    BY <1>7 DEF Access, Raise, Read, Write, accessing, pipeline, Running
  <2>2. cause' = cause \/ cause'.kind # "cycle"
    <3>1. CASE Raise(p)
      BY <3>1 DEF Raise
    <3>2. ASSUME NEW k \in Key, Write(p, k) PROVE cause' = cause \/ cause'.kind # "cycle"
      BY <3>2 DEF Write
    <3>3. ASSUME NEW k \in Key, NEW get \in BOOLEAN, Read(p, k, get)
          PROVE  cause' = cause \/ cause'.kind # "cycle"
      BY <3>3 DEF Read
    <3>4. QED
      BY <1>7, <3>1, <3>2, <3>3 DEF Access
  <2>3. QED
    BY <2>1, <2>2 DEF CycleOK
<1>8. ASSUME NEW p \in Pass, Return(p) PROVE CycleOK'
  BY <1>8 DEF Return, Running, CycleOK
<1>9. CASE UNCHANGED vars
  BY <1>9 DEF vars, pipeline, CycleOK, IsCycle
<1>10. QED
  BY <1>1, <1>2, <1>3, <1>4, <1>5, <1>6, <1>7, <1>8, <1>9 DEF Next, Sort

(* However the passes depend on each other, those that CyclicDependency    *)
(* names wait for each other (_find_cycle): a walk from any pass along the *)
(* first open dependency comes back on itself.                             *)
THEOREM NamedCycleIsReal == Spec => []CycleIsReal
<1>1. Init => CycleOK
  BY DEF Init, CycleOK, NoCause
<1>2. CycleOK => CycleIsReal
  BY DEF CycleOK, CycleIsReal, IsCycle
<1>3. QED
  BY <1>1, <1>2, CycleStep, Invariance, PTL DEF Spec
=============================================================================
