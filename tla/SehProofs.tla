----------------------------- MODULE SehProofs -----------------------------
(***************************************************************************)
(* Theorems about SehDispatch for any functions, scope tables, filters and *)
(* bounds.                                                                 *)
(***************************************************************************)
EXTENDS SehDispatch, FiniteSetTheorems, WellFoundedInduction, TLAPS

(* Every function that registers a frame has an epilogue that takes one    *)
(* out: its own, or the injected one.                                      *)
EpiloguesUnlink == \A f \in Func : Registers(f) => Epilogue[f] # {}

Activations == [fn : Func, at : Nat, level : Int, next : Nat]

(* A frame is linked to one further out, and only registered frames are.   *)
IsLink(s, n) == n = 0 \/ (n \in DOMAIN s /\ Registers(s[n].fn))
Descending(s) == \A d \in DOMAIN s : s[d].next < d /\ IsLink(s, s[d].next)
LinksOK == Descending(stack) /\ IsLink(stack, chain)

(* Where a search may stand.                                               *)
SearchOK ==
  /\ mode \in {"chain", "scope", "filter"} => frame <= Top /\ count <= MaxWalk
  /\ mode \in {"scope", "filter"} => frame # 0
  /\ mode = "filter" => scope >= 0

(* The search has passed every scope whose filter it has asked.            *)
AskedOK ==
  mode \in {"chain", "scope", "filter"} =>
    \A n \in DOMAIN asked :
      asked[n][1] > frame \/ (asked[n][1] = frame /\ mode # "chain" /\ asked[n][2] > scope)

IInv == TypeOK /\ LinksOK /\ SearchOK /\ AskedOK /\ AskedOnce

LEMMA CodeAddress ==
  ASSUME NEW f \in Func, NEW a \in Code[f]
  PROVE  a \in Nat /\ LevelAt[a] \in Int
  BY ConstAssumption

LEMMA StackFacts ==
  ASSUME TypeOK
  PROVE  /\ stack \in Seq(Activations) /\ DOMAIN stack = 1 .. Top
         /\ Top \in Nat /\ Top >= 1 /\ Top <= MaxDepth /\ Top = Len(stack)
         /\ \A d \in 1 .. Top :
              /\ stack[d] \in Activations /\ stack[d].fn \in Func
              /\ stack[d].next \in Nat
         /\ Current = stack[Top] /\ Current \in Activations /\ Current.fn \in Func
<1>1. MaxDepth \in Nat /\ stack \in Seq(Activations) /\ Top \in 1 .. MaxDepth
  BY ConstAssumption DEF TypeOK, Activations
<1>2. Top = Len(stack) /\ DOMAIN stack = 1 .. Top /\ Top \in Nat /\ Top >= 1 /\ Top <= MaxDepth
  BY <1>1 DEF Top
<1>3. \A d \in 1 .. Top : stack[d] \in Activations
  BY <1>1, <1>2
<1>4. \A e \in Activations : e.fn \in Func /\ e.next \in Nat
  BY DEF Activations
<1>5. QED
  BY <1>1, <1>2, <1>3, <1>4 DEF Current

LEMMA NewActivation ==
  ASSUME TypeOK, NEW f \in Func, NEW a \in Code[f]
  PROVE  Activation(f, a) \in Activations
  BY CodeAddress DEF Activation, Activations, TypeOK, Top

LEMMA InitInv == Init => IInv
<1> SUFFICES ASSUME Init PROVE IInv
  OBVIOUS
<1>1. PICK f \in Func : stack = <<Activation(f, Entry[f])>>
  BY DEF Init
<1>2. Activation(f, Entry[f]) \in Activations /\ Activation(f, Entry[f]).next = 0
  BY CodeAddress, ConstAssumption DEF Activation, Activations, Init
<1>3. Top = 1 /\ stack \in Seq(Activations) /\ stack[1].next = 0
  BY <1>1, <1>2 DEF Top
<1>4. TypeOK
  BY <1>3, ConstAssumption DEF Init, TypeOK, Activations, Modes
<1>5. LinksOK
  BY <1>1, <1>3 DEF Init, LinksOK, Descending, IsLink, Top
<1>6. SearchOK /\ AskedOK /\ AskedOnce
  BY DEF Init, SearchOK, AskedOK, AskedOnce
<1>7. QED
  BY <1>4, <1>5, <1>6 DEF IInv

-----------------------------------------------------------------------------
(* The program.                                                            *)

LEMMA MoveInv ==
  ASSUME IInv, NEW a, Move(a)
  PROVE  IInv'
<1>1. a \in Nat /\ LevelAt[a] \in Int
  BY StackFacts, CodeAddress DEF Move, IInv
<1> DEFINE moved == [stack[Top] EXCEPT !.at = a, !.level = LevelAt[a]]
<1>2. stack' = [stack EXCEPT ![Top] = moved]
  BY DEF Move
<1>3. moved \in Activations /\ moved.fn = stack[Top].fn /\ moved.next = stack[Top].next
  BY <1>1, StackFacts DEF IInv, Activations
<1>4. /\ stack' \in Seq(Activations) /\ Len(stack') = Len(stack)
      /\ DOMAIN stack' = DOMAIN stack
      /\ \A d \in DOMAIN stack : stack'[d] = IF d = Top THEN moved ELSE stack[d]
  BY <1>2, <1>3, StackFacts DEF IInv
<1>5. \A d \in DOMAIN stack : stack'[d].next = stack[d].next /\ stack'[d].fn = stack[d].fn
  BY <1>3, <1>4
<1>6. TypeOK'
  BY <1>4 DEF Move, IInv, TypeOK, Activations, Top, Modes, searchRegs
<1>7. LinksOK'
  <2>1. \A n : IsLink(stack, n) => IsLink(stack', n)
    BY <1>4, <1>5 DEF IsLink, Registers
  <2>2. chain' = chain
    BY DEF Move
  <2>3. QED
    BY <1>4, <1>5, <2>1, <2>2 DEF IInv, LinksOK, Descending
<1>8. SearchOK' /\ AskedOK' /\ AskedOnce'
  BY DEF Move, IInv, SearchOK, AskedOK, AskedOnce
<1>9. QED
  BY <1>6, <1>7, <1>8 DEF IInv

LEMMA CallInv ==
  ASSUME IInv, NEW f \in Func, Call(f)
  PROVE  IInv'
<1>1. CASE ~onStack
  <2>1. mode' = "wild" /\ UNCHANGED <<stack, chain, onStack, searchRegs, faults, asked, spent>>
    BY <1>1 DEF Call
  <2>2. TypeOK'
    BY <2>1 DEF IInv, TypeOK, Modes, Top, searchRegs
  <2>3. LinksOK' /\ SearchOK' /\ AskedOK' /\ AskedOnce'
    BY <2>1 DEF IInv, LinksOK, Descending, IsLink, SearchOK, AskedOK, AskedOnce
  <2>4. QED
    BY <2>2, <2>3 DEF IInv
<1>2. CASE onStack
  <2> DEFINE new == Activation(f, Entry[f])
  <2>1. new \in Activations /\ new.next = chain /\ new.fn = f
    BY NewActivation, ConstAssumption DEF IInv, Activation
  <2>2. stack \in Seq(Activations) /\ stack' = Append(stack, new) /\ Len(stack) \in Nat
    BY <1>2, StackFacts DEF IInv, Call
  <2>3. /\ stack' \in Seq(Activations) /\ Len(stack') = Len(stack) + 1
        /\ \A d \in DOMAIN stack : d \in DOMAIN stack' /\ stack'[d] = stack[d]
        /\ stack'[Len(stack) + 1] = new
        /\ DOMAIN stack' = DOMAIN stack \union {Len(stack) + 1}
        /\ \A d \in DOMAIN stack : d \in 1 .. Len(stack)
    BY <2>1, <2>2
  <2>4. chain' \in {chain, Len(stack) + 1} /\ (chain' # chain => Registers(f))
    BY <1>2 DEF Call, Top
  <2>5. Len(stack) < MaxDepth /\ MaxDepth \in Nat
    BY ConstAssumption DEF Call, Top
  <2>6. TypeOK'
    <3>1. chain' \in 0 .. Top'
      BY <2>2, <2>3, <2>4, StackFacts DEF IInv, TypeOK, Top
    <3>2. spent' \subseteq 1 .. Top'
      BY <2>2, <2>3 DEF IInv, TypeOK, Top, Call
    <3>3. QED
      <4>1. Top' \in 1 .. MaxDepth
        BY <2>2, <2>3, <2>5 DEF Top
      <4>2. UNCHANGED <<onStack, mode, searchRegs, faults, asked>>
        BY <1>2 DEF Call
      <4>3. QED
        BY <2>3, <3>1, <3>2, <4>1, <4>2 DEF IInv, TypeOK, Activations, Modes, searchRegs
  <2>7. LinksOK'
    <3>1. \A n : IsLink(stack, n) => IsLink(stack', n)
      BY <2>3 DEF IsLink, Registers
    <3>2. chain \in 0 .. Len(stack) /\ IsLink(stack, chain) /\ Descending(stack)
      BY DEF IInv, TypeOK, Top, LinksOK
    <3>3. chain < Len(stack) + 1
      BY <3>2, <2>2
    <3>4. Descending(stack')
      BY <2>1, <2>3, <3>1, <3>2, <3>3 DEF Descending
    <3>5. IsLink(stack', chain')
      BY <2>1, <2>3, <2>4, <3>1, <3>2 DEF IsLink, Registers
    <3>6. QED
      BY <3>4, <3>5 DEF LinksOK
  <2>8. SearchOK' /\ AskedOK' /\ AskedOnce'
    BY <1>2 DEF Call, IInv, SearchOK, AskedOK, AskedOnce
  <2>9. QED
    BY <2>6, <2>7, <2>8 DEF IInv
<1>3. QED
  BY <1>1, <1>2

(* What remains of the stack when the frames beyond d are gone.            *)
LEMMA Cut ==
  ASSUME TypeOK, Descending(stack), NEW d \in 1 .. Top
  PROVE  /\ SubSeq(stack, 1, d) \in Seq(Activations)
         /\ Len(SubSeq(stack, 1, d)) = d
         /\ \A e \in 1 .. d : SubSeq(stack, 1, d)[e] = stack[e]
         /\ Descending(SubSeq(stack, 1, d))
<1>1. stack \in Seq(Activations) /\ DOMAIN stack = 1 .. Top /\ Top \in Nat /\ Top = Len(stack)
      /\ \A e \in 1 .. Top : stack[e] \in Activations /\ stack[e].next \in Nat
  BY StackFacts
<1> DEFINE s == SubSeq(stack, 1, d)
<1>2. /\ s \in Seq(Activations) /\ Len(s) = d /\ DOMAIN s = 1 .. d
      /\ \A e \in 1 .. d : s[e] = stack[e]
  BY <1>1
<1>3. ASSUME NEW e \in 1 .. d PROVE s[e].next < e /\ IsLink(s, s[e].next)
  <2>1. stack[e].next < e /\ IsLink(stack, stack[e].next) /\ stack[e].next \in Nat
    BY <1>1 DEF Descending
  <2>2. CASE stack[e].next = 0
    BY <1>2, <2>1, <2>2 DEF IsLink
  <2>3. CASE stack[e].next # 0
    <3>1. stack[e].next \in 1 .. d
      BY <2>1, <2>3
    <3>2. QED
      BY <1>2, <2>1, <2>3, <3>1 DEF IsLink
  <2>4. QED
    BY <2>2, <2>3
<1>4. QED
  BY <1>2, <1>3 DEF Descending

(* A link into the part that remains is a link there.                      *)
LEMMA CutLink ==
  ASSUME TypeOK, Descending(stack), NEW d \in 1 .. Top, NEW n \in 0 .. d, IsLink(stack, n)
  PROVE  IsLink(SubSeq(stack, 1, d), n)
<1>1. /\ Len(SubSeq(stack, 1, d)) = d /\ SubSeq(stack, 1, d) \in Seq(Activations)
      /\ \A e \in 1 .. d : SubSeq(stack, 1, d)[e] = stack[e]
  BY Cut
<1>2. DOMAIN SubSeq(stack, 1, d) = 1 .. d
  BY <1>1
<1>3. QED
  BY <1>1, <1>2 DEF IsLink

LEMMA LeaveInv ==
  ASSUME EpiloguesUnlink, IInv, Leave
  PROVE  IInv'
<1>1. /\ Top \in Nat /\ Top > 1 /\ Top - 1 \in 1 .. Top /\ Top <= MaxDepth
      /\ stack \in Seq(Activations) /\ DOMAIN stack = 1 .. Top
      /\ Current \in Activations /\ Current.fn \in Func
  BY StackFacts DEF IInv, Leave
<1>2. /\ stack' \in Seq(Activations) /\ Len(stack') = Top - 1
      /\ Descending(stack')
  BY <1>1, Cut DEF IInv, LinksOK, Leave
<1>3. chain \in 0 .. Top /\ IsLink(stack, chain)
      /\ Current.next < Top /\ IsLink(stack, Current.next) /\ Current.next \in Nat
  <2>1. chain \in 0 .. Top /\ IsLink(stack, chain) /\ Descending(stack)
    BY DEF IInv, TypeOK, LinksOK
  <2>2. Top \in DOMAIN stack /\ Current = stack[Top]
    BY <1>1 DEF Current
  <2>3. stack[Top].next < Top /\ IsLink(stack, stack[Top].next)
    BY <2>1, <2>2 DEF Descending
  <2>4. Current.next \in Nat
    BY <1>1 DEF Activations
  <2>5. QED
    BY <2>1, <2>2, <2>3, <2>4
<1>4. chain' \in 0 .. Top - 1 /\ IsLink(stack, chain')
  <2>1. CASE ~Registers(Current.fn)
    <3>1. chain # Top
      BY <1>1, <1>3, <2>1, StackFacts DEF IInv, IsLink
    <3>2. QED
      BY <1>1, <1>3, <2>1, <3>1 DEF Leave
  <2>2. CASE Registers(Current.fn)
    <3> DEFINE own == IF "own" \in Epilogue[Current.fn] THEN Current.next ELSE chain
    <3>1. chain' = IF "head" \in Epilogue[Current.fn] /\ own # 0 THEN stack[own].next ELSE own
      BY <2>2 DEF Leave, Unlink
    <3>2. own \in 0 .. Top /\ IsLink(stack, own)
      BY <1>1, <1>3
    <3>3. CASE "head" \in Epilogue[Current.fn] /\ own # 0
      <4>1. own \in DOMAIN stack
        BY <1>1, <3>2, <3>3
      <4>2. stack[own].next < own /\ IsLink(stack, stack[own].next) /\ stack[own].next \in Nat
        BY <1>1, <4>1, StackFacts DEF IInv, LinksOK, Descending
      <4>3. QED
        BY <1>1, <3>1, <3>2, <3>3, <4>2
    <3>4. CASE "head" \notin Epilogue[Current.fn]
      <4>1. "own" \in Epilogue[Current.fn]
        <5>1. Epilogue[Current.fn] \subseteq {"own", "head"}
          BY <1>1, ConstAssumption
        <5>2. Epilogue[Current.fn] # {}
          BY <1>1, <2>2 DEF EpiloguesUnlink
        <5>3. QED
          BY <3>4, <5>1, <5>2
      <4>2. QED
        BY <1>1, <1>3, <3>1, <3>4, <4>1
    <3>5. CASE own = 0
      BY <1>1, <3>1, <3>2, <3>5
    <3>6. QED
      BY <3>3, <3>4, <3>5
  <2>3. QED
    BY <2>1, <2>2
<1>5. TypeOK'
  <2>1. spent' \subseteq 1 .. Top'
    <3>1. spent' = spent \ {Top} /\ spent \subseteq 1 .. Top
      BY DEF Leave, IInv, TypeOK
    <3>2. Top' = Top - 1
      BY <1>2 DEF Top
    <3>3. QED
      BY <1>1, <3>1, <3>2
  <2>2. chain' \in 0 .. Top' /\ Top' \in 1 .. MaxDepth
    BY <1>1, <1>2, <1>4, ConstAssumption DEF Top
  <2>3. QED
    <3>1. onStack' = TRUE /\ UNCHANGED <<mode, searchRegs, faults, asked>>
      BY DEF Leave
    <3>2. QED
      BY <1>2, <2>1, <2>2, <3>1 DEF IInv, TypeOK, Activations, Modes, searchRegs
<1>6. LinksOK'
  <2>1. IsLink(SubSeq(stack, 1, Top - 1), chain')
    BY <1>1, <1>4, CutLink DEF IInv, LinksOK
  <2>2. QED
    BY <1>2, <2>1 DEF LinksOK, Leave
<1>7. SearchOK' /\ AskedOK' /\ AskedOnce'
  BY DEF Leave, IInv, SearchOK, AskedOK, AskedOnce
<1>8. QED
  BY <1>5, <1>6, <1>7 DEF IInv

LEMMA FaultInv ==
  ASSUME IInv, Fault
  PROVE  IInv'
<1>1. TypeOK'
  <2>1. chain \in 0 .. MaxDepth
    BY StackFacts, ConstAssumption DEF IInv, TypeOK
  <2>2. faults' \in 0 .. MaxFaults /\ MaxWalk \in Nat
    BY ConstAssumption DEF IInv, Fault, TypeOK
  <2>3. frame' \in 0 .. MaxDepth /\ count' \in 0 .. MaxWalk + 1 /\ scope' \in Int
        /\ mode' \in Modes /\ asked' \in Seq((1 .. MaxDepth) \X Nat \X Answers)
    <3>1. CASE onStack
      BY <2>1, <2>2, <3>1 DEF Fault, Modes
    <3>2. CASE ~onStack
      BY <3>2 DEF Fault, Modes, IInv, TypeOK, searchRegs
    <3>3. QED
      BY <3>1, <3>2
  <2>4. QED
    BY <2>2, <2>3 DEF IInv, Fault, TypeOK, Top
<1>2. LinksOK'
  BY DEF IInv, Fault, LinksOK, Descending, IsLink
<1>3. SearchOK' /\ AskedOK' /\ AskedOnce'
  <2>1. CASE onStack
    <3>1. asked' = <<>> /\ frame' = chain /\ count' = 0 /\ mode' = "chain" /\ Top' = Top
      BY <2>1 DEF Fault, Top
    <3>2. chain <= Top
      BY DEF IInv, TypeOK
    <3>3. QED
      BY <3>1, <3>2, ConstAssumption DEF SearchOK, AskedOK, AskedOnce
  <2>2. CASE ~onStack
    BY <2>2 DEF Fault, IInv, SearchOK, AskedOK, AskedOnce
  <2>3. QED
    BY <2>1, <2>2
<1>4. QED
  BY <1>1, <1>2, <1>3 DEF IInv

-----------------------------------------------------------------------------
(* The dispatch.                                                           *)

(* A step that changes neither the stack nor gs:[0].                       *)
LEMMA SameStack ==
  ASSUME IInv, UNCHANGED program,
         frame' \in 0 .. MaxDepth, mode' \in Modes, count' \in 0 .. MaxWalk + 1,
         scope' \in Int, asked' \in Seq((1 .. MaxDepth) \X Nat \X Answers)
  PROVE  TypeOK' /\ LinksOK'
<1>1. stack' = stack /\ chain' = chain /\ onStack' = onStack /\ faults' = faults /\ spent' = spent
  BY DEF program
<1>2. TypeOK'
  BY <1>1 DEF IInv, TypeOK, Top
<1>3. LinksOK'
  BY <1>1 DEF IInv, LinksOK, Descending, IsLink
<1>4. QED
  BY <1>2, <1>3

(* What a search knows of its place.                                       *)
LEMMA Place ==
  ASSUME IInv
  PROVE  /\ frame \in 0 .. MaxDepth /\ count \in 0 .. MaxWalk + 1 /\ scope \in Int
         /\ asked \in Seq((1 .. MaxDepth) \X Nat \X Answers)
         /\ MaxWalk \in Nat /\ MaxDepth \in Nat
         /\ mode \in {"chain", "scope", "filter"} => frame \in 0 .. Top
         /\ mode \in {"scope", "filter"} => frame \in 1 .. Top
         /\ mode \in {"chain", "scope", "filter"} /\ frame # 0 =>
              stack[frame].next \in 0 .. Top /\ stack[frame].next < frame
<1>1. /\ frame \in 0 .. MaxDepth /\ count \in 0 .. MaxWalk + 1 /\ scope \in Int
      /\ asked \in Seq((1 .. MaxDepth) \X Nat \X Answers)
      /\ MaxWalk \in Nat /\ MaxDepth \in Nat
  BY ConstAssumption DEF IInv, TypeOK
<1>2. Top \in Nat /\ Top <= MaxDepth /\ DOMAIN stack = 1 .. Top
  BY StackFacts DEF IInv
<1>3. mode \in {"chain", "scope", "filter"} => frame \in 0 .. Top
  BY <1>1, <1>2 DEF IInv, SearchOK
<1>4. mode \in {"scope", "filter"} => frame \in 1 .. Top
  BY <1>1, <1>2, <1>3 DEF IInv, SearchOK
<1>5. ASSUME mode \in {"chain", "scope", "filter"}, frame # 0
      PROVE  stack[frame].next \in 0 .. Top /\ stack[frame].next < frame
  <2>1. frame \in 1 .. Top
    BY <1>2, <1>3, <1>5
  <2>2. stack[frame].next \in Nat /\ stack[frame].next < frame
    BY <1>2, <2>1, StackFacts DEF IInv, LinksOK, Descending
  <2>3. QED
    BY <1>2, <2>1, <2>2
<1>6. QED
  BY <1>1, <1>3, <1>4, <1>5

LEMMA GiveUpInv == ASSUME IInv, GiveUp PROVE IInv'
<1>1. count' = count + 1 /\ count <= MaxWalk /\ count \in Nat
  BY Place DEF GiveUp, IInv, SearchOK
<1>2. TypeOK' /\ LinksOK'
  BY <1>1, Place, SameStack DEF GiveUp, Modes
<1>3. SearchOK' /\ AskedOK' /\ AskedOnce'
  BY DEF GiveUp, IInv, SearchOK, AskedOK, AskedOnce
<1>4. QED
  BY <1>2, <1>3 DEF IInv

LEMMA TerminateInv == ASSUME IInv, Terminate PROVE IInv'
<1>1. TypeOK' /\ LinksOK'
  BY Place, SameStack DEF Terminate, Modes, searchRegs
<1>2. SearchOK' /\ AskedOK' /\ AskedOnce'
  BY DEF Terminate, IInv, SearchOK, AskedOK, AskedOnce
<1>3. QED
  BY <1>1, <1>2 DEF IInv

LEMMA VisitInv == ASSUME IInv, Visit PROVE IInv'
<1>1. /\ mode = "chain" /\ frame # 0 /\ count' = count + 1 /\ count' <= MaxWalk
      /\ count' \in 0 .. MaxWalk + 1
      /\ UNCHANGED program /\ asked' = asked /\ stack' = stack /\ Top' = Top
  BY Place DEF Visit, program, Top
<1>2. frame \in 1 .. Top /\ Top <= MaxDepth /\ Top \in Nat
  BY <1>1, Place, StackFacts DEF IInv
<1>3. \A n \in DOMAIN asked : asked[n][1] > frame
  BY <1>1 DEF IInv, AskedOK
<1>4. AskedOnce'
  BY <1>1 DEF IInv, AskedOnce
<1>5. CASE stack[frame].fn \in Foreign
  <2>1. frame' = stack[frame].next /\ mode' = mode /\ scope' = scope
    BY <1>5 DEF Visit
  <2>2. frame' \in 0 .. Top /\ frame' < frame /\ frame' \in 0 .. MaxDepth
    BY <1>1, <1>2, <2>1, Place
  <2>3. TypeOK' /\ LinksOK'
    BY <1>1, <2>1, <2>2, Place, SameStack DEF Modes
  <2>4. SearchOK'
    BY <1>1, <1>2, <2>1, <2>2 DEF SearchOK
  <2>5. \A n \in DOMAIN asked : asked[n][1] \in Nat
    BY Place
  <2>6. AskedOK'
    BY <1>1, <1>2, <1>3, <2>1, <2>2, <2>5 DEF AskedOK
  <2>7. QED
    BY <1>4, <2>3, <2>4, <2>6 DEF IInv
<1>6. CASE stack[frame].fn \notin Foreign
  <2>1. /\ frame' = frame /\ mode' = "scope"
        /\ scope' = IF stack[frame].level < 0 THEN 0 ELSE stack[frame].level
    BY <1>6 DEF Visit
  <2>2. stack[frame].level \in Int
    BY <1>2, StackFacts DEF IInv, Activations
  <2>3. TypeOK' /\ LinksOK'
    BY <1>1, <2>1, <2>2, Place, SameStack DEF Modes
  <2>4. SearchOK' /\ AskedOK'
    BY <1>1, <1>2, <1>3, <2>1 DEF SearchOK, AskedOK
  <2>5. QED
    BY <1>4, <2>3, <2>4 DEF IInv
<1>7. QED
  BY <1>5, <1>6

LEMMA PassOverInv == ASSUME IInv, PassOver PROVE IInv'
<1>1. /\ mode = "scope" /\ scope' = scope - 1 /\ scope \in Int
      /\ UNCHANGED <<program, mode, frame, count, asked, stack>> /\ Top' = Top
  BY Place DEF PassOver, program, Top
<1>2. TypeOK' /\ LinksOK'
  BY <1>1, Place, SameStack DEF Modes
<1>3. \A n \in DOMAIN asked : asked[n][2] \in Int
  BY Place
<1>4. SearchOK' /\ AskedOK' /\ AskedOnce'
  BY <1>1, <1>3 DEF IInv, SearchOK, AskedOK, AskedOnce
<1>5. QED
  BY <1>2, <1>4 DEF IInv

LEMMA CallFilterInv == ASSUME IInv, CallFilter PROVE IInv'
<1>1. /\ mode = "scope" /\ mode' \in {"filter", "wild"} /\ scope >= 0
      /\ UNCHANGED <<program, frame, count, scope, asked, stack>> /\ Top' = Top
  BY DEF CallFilter, searchRegs, program, Top
<1>2. TypeOK' /\ LinksOK'
  BY <1>1, Place, SameStack DEF Modes
<1>3. SearchOK' /\ AskedOK' /\ AskedOnce'
  BY <1>1 DEF IInv, SearchOK, AskedOK, AskedOnce
<1>4. QED
  BY <1>2, <1>3 DEF IInv

LEMMA NextFrameInv == ASSUME IInv, NextFrame PROVE IInv'
<1>1. /\ mode = "scope" /\ mode' = "chain" /\ scope < 0 /\ frame' = stack[frame].next
      /\ UNCHANGED <<program, count, scope, asked, stack>> /\ Top' = Top
  BY DEF NextFrame, program, Top
<1>2. frame \in 1 .. Top /\ frame' \in 0 .. Top /\ frame' < frame /\ Top \in Nat /\ Top <= MaxDepth
  BY <1>1, Place, StackFacts DEF IInv
<1>3. TypeOK' /\ LinksOK'
  BY <1>1, <1>2, Place, SameStack DEF Modes
<1>4. \A n \in DOMAIN asked : asked[n][1] \in Nat
  BY Place
<1>5. \A n \in DOMAIN asked : asked[n][1] >= frame
  BY <1>1, <1>2, <1>4 DEF IInv, AskedOK
<1>6. SearchOK' /\ AskedOK' /\ AskedOnce'
  BY <1>1, <1>2, <1>4, <1>5 DEF IInv, SearchOK, AskedOK, AskedOnce
<1>7. QED
  BY <1>3, <1>6 DEF IInv

LEMMA Redirected ==
  ASSUME NEW r \in Activations, NEW a \in Nat, NEW l \in Int
  PROVE  LET s == [r EXCEPT !.at = a, !.level = l]
         IN  s \in Activations /\ s.fn = r.fn /\ s.next = r.next
  BY DEF Activations

LEMMA Words == \A k : Dword(k) \in Nat
  BY ConstAssumption DEF Dword

(* A handler is entered.                                                   *)
LEMMA ExecuteInv ==
  ASSUME IInv, mode \in {"scope", "filter"}, Execute(frame, scope),
         asked' \in Seq((1 .. MaxDepth) \X Nat \X Answers), AskedOnce'
  PROVE  IInv'
<1> DEFINE target == Target(frame, scope)
           cut == SubSeq(stack, 1, frame)
           top == [cut[frame] EXCEPT !.at = target, !.level = scope - 1]
<1>1. /\ frame \in 1 .. Top /\ Top \in Nat /\ Top <= MaxDepth /\ scope \in Int
      /\ stack[frame].next \in Nat /\ stack[frame].next < frame
  BY Place, StackFacts DEF IInv
<1>2. target \in Nat
  BY Words DEF Target, Record
<1>3. /\ cut \in Seq(Activations) /\ Len(cut) = frame /\ Descending(cut)
      /\ \A e \in 1 .. frame : cut[e] = stack[e]
  BY <1>1, Cut DEF IInv, LinksOK
<1>4. stack' = [cut EXCEPT ![frame] = top]
  BY DEF Execute
<1> HIDE DEF cut, target
<1>5. DOMAIN cut = 1 .. frame /\ cut[frame] \in Activations
  BY <1>1, <1>3
<1>6. top \in Activations /\ top.fn = cut[frame].fn /\ top.next = cut[frame].next
  <2>1. scope - 1 \in Int
    BY <1>1
  <2>2. QED
    BY <1>2, <1>5, <2>1, Redirected
<1> HIDE DEF top
<1>7. /\ stack' \in Seq(Activations) /\ Len(stack') = frame /\ DOMAIN stack' = 1 .. frame
      /\ \A e \in 1 .. frame : stack'[e].fn = cut[e].fn /\ stack'[e].next = cut[e].next
  <2>1. \A e \in 1 .. frame : stack'[e] = IF e = frame THEN top ELSE cut[e]
    BY <1>4, <1>5
  <2>2. stack' \in Seq(Activations) /\ Len(stack') = frame /\ DOMAIN stack' = 1 .. frame
    BY <1>1, <1>3, <1>4, <1>5, <1>6
  <2>3. QED
    BY <1>6, <2>1, <2>2
<1>8. Top' = frame /\ chain' = stack[frame].next
  BY <1>7 DEF Top, Execute
<1>9. TypeOK'
  <2>1. Top' \in 1 .. MaxDepth /\ chain' \in 0 .. Top' /\ MaxDepth \in Nat
    <3>1. MaxDepth \in Nat
      BY ConstAssumption
    <3>2. frame \in 1 .. MaxDepth /\ stack[frame].next \in 0 .. frame
      BY <1>1, <3>1
    <3>3. QED
      BY <1>8, <3>1, <3>2
  <2>2. spent' \subseteq 1 .. Top'
    <3>1. spent' = {e \in spent : e < frame} \union {frame} /\ spent \subseteq 1 .. Top
      BY DEF Execute, IInv, TypeOK
    <3>2. ASSUME NEW e \in spent' PROVE e \in 1 .. frame
      BY <1>1, <3>1
    <3>3. QED
      BY <1>8, <3>2
  <2>3. onStack' \in BOOLEAN /\ mode' \in Modes
    BY DEF Execute, Modes
  <2>4. UNCHANGED <<frame, count, scope, faults>>
    BY DEF Execute, searchRegs
  <2>5. QED
    BY <1>7, <2>1, <2>2, <2>3, <2>4 DEF IInv, TypeOK, Activations
<1>10. LinksOK'
  <2>1. \A n : IsLink(cut, n) => IsLink(stack', n)
    BY <1>5, <1>7 DEF IsLink, Registers
  <2>2. Descending(stack')
    BY <1>3, <1>5, <1>7, <2>1 DEF Descending
  <2>3. cut[frame].next = stack[frame].next /\ IsLink(cut, cut[frame].next)
    <3>1. frame \in DOMAIN cut /\ frame \in 1 .. frame
      BY <1>1, <1>5
    <3>2. IsLink(cut, cut[frame].next)
      BY <1>3, <3>1 DEF Descending
    <3>3. cut[frame] = stack[frame]
      BY <1>3, <3>1
    <3>4. QED
      BY <3>2, <3>3
  <2>4. QED
    BY <1>8, <2>1, <2>2, <2>3 DEF LinksOK
<1>11. SearchOK' /\ AskedOK'
  BY DEF Execute, SearchOK, AskedOK
<1>12. QED
  BY <1>9, <1>10, <1>11 DEF IInv

LEMMA NoFilterInv == ASSUME IInv, NoFilter PROVE IInv'
<1>1. asked' = asked /\ mode = "scope" /\ Execute(frame, scope)
  BY DEF NoFilter
<1>2. AskedOnce'
  BY <1>1 DEF IInv, AskedOnce
<1>3. QED
  BY <1>1, <1>2, Place, ExecuteInv

LEMMA AppendFacts ==
  ASSUME NEW S, NEW s \in Seq(S), NEW e \in S
  PROVE  /\ Append(s, e) \in Seq(S)
         /\ DOMAIN Append(s, e) = DOMAIN s \union {Len(s) + 1} /\ Len(s) + 1 \notin DOMAIN s
         /\ \A n \in DOMAIN s : Append(s, e)[n] = s[n]
         /\ Append(s, e)[Len(s) + 1] = e
  OBVIOUS

LEMMA AnswerInv == ASSUME IInv, NEW a \in Answers, Answer(a) PROVE IInv'
<1>1. /\ mode = "filter" /\ frame \in 1 .. Top /\ Top \in Nat /\ Top <= MaxDepth
      /\ scope \in Nat /\ MaxDepth \in Nat
  BY Place, StackFacts DEF Answer, IInv, SearchOK
<1> DEFINE new == <<frame, scope, a>>
<1>2. /\ asked \in Seq((1 .. MaxDepth) \X Nat \X Answers)
      /\ new \in (1 .. MaxDepth) \X Nat \X Answers
      /\ asked' = Append(asked, new)
  BY <1>1, Place DEF Answer
<1>3. /\ asked' \in Seq((1 .. MaxDepth) \X Nat \X Answers)
      /\ DOMAIN asked' = DOMAIN asked \union {Len(asked) + 1}
      /\ Len(asked) + 1 \notin DOMAIN asked
      /\ \A n \in DOMAIN asked : asked'[n] = asked[n]
      /\ asked'[Len(asked) + 1] = new
  <2> HIDE DEF new
  <2>1. QED
    BY <1>2, AppendFacts
<1>4. new[1] = frame /\ new[2] = scope
  OBVIOUS
<1>5. \A n \in DOMAIN asked :
        /\ asked[n][1] \in Nat /\ asked[n][2] \in Nat
        /\ asked[n][1] > frame \/ (asked[n][1] = frame /\ asked[n][2] > scope)
  BY <1>1, <1>2 DEF IInv, AskedOK
<1>6. \A n \in DOMAIN asked : ~(asked[n][1] = new[1] /\ asked[n][2] = new[2])
  BY <1>1, <1>4, <1>5
<1>7. AskedOnce'
  <2> SUFFICES ASSUME NEW m \in DOMAIN asked', NEW n \in DOMAIN asked',
                      asked'[m][1] = asked'[n][1], asked'[m][2] = asked'[n][2]
               PROVE  m = n
    BY DEF AskedOnce
  <2>1. CASE m \in DOMAIN asked /\ n \in DOMAIN asked
    BY <1>3, <2>1 DEF IInv, AskedOnce
  <2>2. CASE m \notin DOMAIN asked \/ n \notin DOMAIN asked
    BY <1>3, <1>6, <2>2
  <2>3. QED
    BY <2>1, <2>2
<1>8. CASE a = 1
  <2>1. Execute(frame, scope)
    BY <1>8 DEF Answer
  <2>2. QED
    BY <1>1, <1>3, <1>7, <2>1, ExecuteInv
<1>9. CASE a # 1
  <2>1. /\ mode' = "scope" /\ scope' = scope - 1 /\ UNCHANGED <<program, frame, count, stack>>
        /\ Top' = Top
    BY <1>9 DEF Answer, program, Top
  <2>2. TypeOK' /\ LinksOK'
    BY <1>1, <1>3, <2>1, Place, SameStack DEF Modes
  <2>3. SearchOK'
    BY <1>1, <2>1 DEF IInv, SearchOK
  <2>4. AskedOK'
    <3>1. \A n \in DOMAIN asked :
            asked'[n][1] > frame' \/ (asked'[n][1] = frame' /\ asked'[n][2] > scope')
      BY <1>1, <1>3, <1>5, <2>1
    <3>2. asked'[Len(asked) + 1][1] = frame' /\ asked'[Len(asked) + 1][2] > scope'
      BY <1>1, <1>3, <1>4, <2>1
    <3>3. QED
      BY <1>3, <2>1, <3>1, <3>2 DEF AskedOK
  <2>5. QED
    BY <1>7, <2>2, <2>3, <2>4 DEF IInv
<1>10. QED
  BY <1>8, <1>9

LEMMA StutterInv == ASSUME IInv, UNCHANGED vars PROVE IInv'
  BY DEF vars, searchRegs, IInv, TypeOK, LinksOK, Descending, IsLink, SearchOK, AskedOK,
         AskedOnce, Top

LEMMA StepInv == ASSUME EpiloguesUnlink, IInv, [Next]_vars PROVE IInv'
<1>1. CASE Program
  BY <1>1, MoveInv, CallInv, LeaveInv, FaultInv DEF Program
<1>2. CASE Dispatch
  BY <1>2, GiveUpInv, VisitInv, TerminateInv, PassOverInv, NoFilterInv, CallFilterInv,
     NextFrameInv, AnswerInv DEF Dispatch
<1>3. CASE UNCHANGED vars
  BY <1>3, StutterInv
<1>4. QED
  BY <1>1, <1>2, <1>3 DEF Next

(* Frames, try levels and the places of a search keep their types; gs:[0]  *)
(* and every link lead to a frame that is still on the stack (the chain    *)
(* that the vectored handler walks without a check, w2kseh64.py 381-437).  *)
THEOREM Typing ==
  ASSUME EpiloguesUnlink
  PROVE  Spec => []TypeOK
<1>1. IInv => TypeOK
  BY DEF IInv
<1>2. QED
  BY <1>1, InitInv, StepInv, PTL DEF Spec

(* No filter is asked twice about one exception, however frames are linked *)
(* and whatever the scope tables hold (next_scope and the chain walk,      *)
(* w2kseh64.py 339-341 and 429-438).                                       *)
THEOREM FiltersAskedOnce ==
  ASSUME EpiloguesUnlink
  PROVE  Spec => []AskedOnce
<1>1. IInv => AskedOnce
  BY DEF IInv
<1>2. QED
  BY <1>1, InitInv, StepInv, PTL DEF Spec

-----------------------------------------------------------------------------
(* The induction that the least counterexample gives.                      *)
LEMMA LeastElement ==
  ASSUME NEW T \in SUBSET Nat, T # {}
  PROVE  \E x \in T : \A y \in T : x <= y
<1> DEFINE R == OpToRel(<, Nat)
<1>1. IsWellFoundedOn(R, Nat)
  BY NatLessThanWellFounded, Zenon
<1>2. ASSUME NEW a \in Nat, NEW b \in Nat, a < b PROVE <<a, b>> \in R
  BY <1>2, Zenon DEF OpToRel
<1> HIDE DEF R
<1>3. PICK x \in T : \A y \in T : ~(<<y, x>> \in R)
  BY <1>1, WFMin, Zenon
<1>4. ASSUME NEW y \in T PROVE x <= y
  <2>1. ~(y < x)
    BY <1>2, <1>3
  <2>2. QED
    BY <2>1
<1>5. QED
  BY <1>4

-----------------------------------------------------------------------------
(* The chain.  Every link leads further out, so the walk from gs:[0] ends. *)

(* The frames that every set closed under links has if it has c.           *)
Walk(c) ==
  {e \in 1 .. Top :
     \A S \in SUBSET (1 .. Top) :
       c \in S /\ (\A x \in S : stack[x].next \in S \union {0}) => e \in S}

LEMMA WalkStep ==
  ASSUME TypeOK, LinksOK, NEW c \in 1 .. Top
  PROVE  LET n == stack[c].next
         IN  Walk(c) = {c} \union (IF n = 0 THEN {} ELSE Walk(n))
<1> DEFINE n == stack[c].next
           Closed(S) == \A x \in S : stack[x].next \in S \union {0}
           T == {c} \union (IF n = 0 THEN {} ELSE Walk(n))
<1>1. \A x \in 1 .. Top : stack[x].next \in 0 .. Top
  <2> SUFFICES ASSUME NEW x \in 1 .. Top PROVE stack[x].next \in 0 .. Top
    OBVIOUS
  <2>1. stack[x].next \in Nat /\ stack[x].next < x /\ Top \in Nat
    BY StackFacts DEF LinksOK, Descending
  <2>2. QED
    BY <2>1
<1>2. n # 0 => n \in 1 .. Top
  BY <1>1, StackFacts
<1>3. \A d, e : e \in Walk(d) <=>
        e \in 1 .. Top /\ \A S \in SUBSET (1 .. Top) : d \in S /\ Closed(S) => e \in S
  BY DEF Walk
<1>4. T \subseteq Walk(c)
  <2>1. c \in Walk(c)
    BY <1>3
  <2>2. ASSUME n # 0, NEW e \in Walk(n) PROVE e \in Walk(c)
    <3>1. e \in 1 .. Top
      BY <1>3, <2>2
    <3>2. ASSUME NEW S \in SUBSET (1 .. Top), c \in S, Closed(S) PROVE e \in S
      <4>1. n \in S
        BY <2>2, <3>2
      <4> HIDE DEF Closed, n
      <4>2. QED
        BY <1>3, <2>2, <3>2, <4>1
    <3> HIDE DEF Closed, n
    <3>3. QED
      BY <1>3, <3>1, <3>2
  <2> HIDE DEF n
  <2>3. QED
    BY <2>1, <2>2
<1>5. Walk(c) \subseteq T
  <2>1. T \in SUBSET (1 .. Top)
    BY <1>3
  <2>2. c \in T
    OBVIOUS
  <2>3. Closed(T)
    <3>1. CASE n = 0
      BY <3>1
    <3>2. CASE n # 0
      <4>1. n \in Walk(n)
        <5> HIDE DEF n
        <5>1. QED
          BY <1>2, <1>3, <3>2
      <4>2. ASSUME NEW x \in Walk(n) PROVE stack[x].next \in Walk(n) \union {0}
        <5> SUFFICES ASSUME stack[x].next # 0 PROVE stack[x].next \in Walk(n)
          OBVIOUS
        <5>1. x \in 1 .. Top
          BY <1>3
        <5>2. stack[x].next \in 1 .. Top
          BY <1>1, <5>1, StackFacts
        <5>3. ASSUME NEW S \in SUBSET (1 .. Top), n \in S, Closed(S) PROVE stack[x].next \in S
          <6>1. x \in S
            <7> HIDE DEF n, Closed
            <7>1. QED
              BY <1>3, <5>3
          <6>2. QED
            BY <5>3, <6>1
        <5> HIDE DEF n, Closed
        <5>4. QED
          BY <1>3, <5>2, <5>3
      <4>3. T = {c} \union Walk(n)
        BY <3>2
      <4>4. ASSUME NEW x \in T PROVE stack[x].next \in T \union {0}
        <5>1. CASE x = c
          BY <4>1, <4>3, <5>1
        <5>2. CASE x \in Walk(n)
          <6> HIDE DEF n, T
          <6>1. QED
            BY <4>2, <4>3, <5>2
        <5>3. QED
          BY <4>3, <5>1, <5>2
      <4>5. QED
        <5> HIDE DEF T
        <5>1. QED
          BY <4>4
    <3>3. QED
      BY <3>1, <3>2
  <2> HIDE DEF Closed, T
  <2>4. QED
    BY <1>3, <2>1, <2>2, <2>3
<1>6. QED
  <2> HIDE DEF T
  <2>1. Walk(c) = T
    BY <1>4, <1>5
  <2>2. QED
    BY <2>1 DEF T

(* The recursive function of Linked exists, and satisfies its equation.    *)
LEMMA LinkedFunction ==
  ASSUME TypeOK, LinksOK
  PROVE  \E F : /\ Linked = F[chain] /\ F[0] = {}
                /\ \A d \in 1 .. Top : F[d] = {d} \union F[stack[d].next]
<1> DEFINE Step(f) == [d \in 0 .. MaxDepth |->
                         IF d = 0 THEN {}
                         ELSE {d} \union (IF d <= Top THEN f[stack[d].next] ELSE {})]
           G == [d \in 0 .. MaxDepth |->
                   IF d = 0 THEN {} ELSE IF d <= Top THEN Walk(d) ELSE {d}]
           F == CHOOSE f : f = Step(f)
<1>1. Top \in Nat /\ MaxDepth \in Nat /\ Top <= MaxDepth /\ DOMAIN stack = 1 .. Top
  BY StackFacts, ConstAssumption
<1>2. \A d \in 1 .. Top : stack[d].next \in 0 .. Top /\ stack[d].next \in 0 .. MaxDepth
  <2> SUFFICES ASSUME NEW d \in 1 .. Top
               PROVE  stack[d].next \in 0 .. Top /\ stack[d].next \in 0 .. MaxDepth
    OBVIOUS
  <2>1. stack[d].next \in Nat /\ stack[d].next < d
    BY <1>1, StackFacts DEF LinksOK, Descending
  <2>2. QED
    BY <1>1, <2>1
<1>3. G = Step(G)
  <2>1. ASSUME NEW d \in 0 .. MaxDepth PROVE G[d] = Step(G)[d]
    <3>1. CASE d = 0
      BY <3>1
    <3>2. CASE d # 0 /\ ~(d <= Top)
      BY <3>2
    <3>3. CASE d # 0 /\ d <= Top
      <4>1. d \in 1 .. Top
        BY <1>1, <3>3
      <4> DEFINE n == stack[d].next
      <4>2. n \in 0 .. Top /\ n \in 0 .. MaxDepth
        BY <1>2, <4>1
      <4>3. Walk(d) = {d} \union (IF n = 0 THEN {} ELSE Walk(n))
        BY <4>1, WalkStep
      <4>4. Step(G)[d] = {d} \union G[n]
        <5> HIDE DEF G
        <5>1. QED
          BY <3>3
      <4> HIDE DEF n
      <4>5. G[n] = IF n = 0 THEN {} ELSE Walk(n)
        BY <1>1, <4>2
      <4>6. G[d] = Walk(d)
        BY <3>3
      <4> HIDE DEF G, Step
      <4>7. QED
        BY <4>3, <4>4, <4>5, <4>6
    <3>4. QED
      BY <3>1, <3>2, <3>3
  <2>2. QED
    BY <2>1
<1>4. F = Step(F)
  <2> HIDE DEF G, Step
  <2>1. QED
    BY <1>3
<1>5. Linked = F[chain]
  BY DEF Linked
<1> HIDE DEF F, G
<1>6. F[0] = {}
  BY <1>1, <1>4
<1>7. ASSUME NEW d \in 1 .. Top PROVE F[d] = {d} \union F[stack[d].next]
  <2>1. d \in 0 .. MaxDepth /\ d # 0 /\ d <= Top
    BY <1>1
  <2>2. F[d] = Step(F)[d]
    BY <1>4
  <2>3. QED
    BY <2>1, <2>2
<1>8. QED
  BY <1>5, <1>6, <1>7

(* The frames of gs:[0] lie in a set that has the first and is closed      *)
(* under links, and each leads to the next one further out.                *)
LEMMA LinkedIn ==
  ASSUME TypeOK, LinksOK, NEW A \in SUBSET (1 .. Top),
         chain \in A \union {0}, \A d \in A : stack[d].next \in A \union {0}
  PROVE  /\ Linked \subseteq A
         /\ chain \in Linked \union {0} /\ \A e \in Linked : e <= chain
         /\ \A d \in Linked :
              /\ stack[d].next \in Linked \union {0}
              /\ \A e \in Linked : e < d => e <= stack[d].next
<1>1. PICK F : /\ Linked = F[chain] /\ F[0] = {}
               /\ \A d \in 1 .. Top : F[d] = {d} \union F[stack[d].next]
  BY LinkedFunction
<1>2. /\ Top \in Nat /\ A \in SUBSET Nat
      /\ \A d \in A : stack[d].next \in A \union {0} /\ stack[d].next \in Nat /\ stack[d].next < d
  <2>1. \A d \in 1 .. Top : stack[d].next \in Nat /\ stack[d].next < d
    BY StackFacts DEF LinksOK, Descending
  <2>2. Top \in Nat
    BY StackFacts
  <2>3. QED
    BY <2>1, <2>2
<1> DEFINE Good(c) ==
             /\ F[c] \subseteq A
             /\ c \in F[c] \union {0} /\ \A e \in F[c] : e <= c
             /\ \A d \in F[c] :
                  /\ stack[d].next \in F[c] \union {0}
                  /\ \A e \in F[c] : e < d => e <= stack[d].next
           Bad == {c \in A \union {0} : ~Good(c)}
<1>3. Good(0)
  BY <1>1
<1>4. ASSUME NEW c \in A, Good(stack[c].next) PROVE Good(c)
  <2> DEFINE n == stack[c].next
  <2>1. n \in A \union {0} /\ n \in Nat /\ n < c /\ c \in Nat
    BY <1>2
  <2>2. F[c] = {c} \union F[n]
    BY <1>1
  <2>3. /\ F[n] \subseteq A /\ n \in F[n] \union {0} /\ \A e \in F[n] : e <= n
        /\ \A d \in F[n] :
             /\ stack[d].next \in F[n] \union {0}
             /\ \A e \in F[n] : e < d => e <= stack[d].next
    BY <1>4
  <2>4. F[c] \subseteq A /\ c \in F[c] \union {0}
    BY <2>2, <2>3
  <2>5. ASSUME NEW e \in F[c] PROVE e <= c /\ (e # c => e \in F[n] /\ e < c)
    <3>1. e = c \/ (e \in F[n] /\ e <= n /\ e \in Nat)
      BY <1>2, <2>2, <2>3
    <3> HIDE DEF n
    <3>2. QED
      BY <2>1, <3>1
  <2>6. ASSUME NEW d \in F[c]
        PROVE  /\ stack[d].next \in F[c] \union {0}
               /\ \A e \in F[c] : e < d => e <= stack[d].next
    <3>1. CASE d = c
      <4>1. ASSUME NEW e \in F[c], e < d PROVE e <= n
        BY <2>1, <2>3, <2>5, <3>1, <4>1
      <4>2. QED
        BY <2>2, <2>3, <3>1, <4>1
    <3>2. CASE d # c
      <4>1. d \in F[n] /\ d < c /\ d \in Nat
        BY <1>2, <2>4, <2>5, <3>2
      <4>2. ASSUME NEW e \in F[c], e < d PROVE e \in F[n]
        <5>1. e # c
          BY <2>1, <4>1, <4>2
        <5>2. QED
          BY <2>5, <5>1
      <4>3. QED
        <5> HIDE DEF n
        <5>1. QED
          BY <2>2, <2>3, <4>1, <4>2
    <3>3. QED
      BY <3>1, <3>2
  <2>7. QED
    BY <2>4, <2>5, <2>6
<1>5. ASSUME Bad # {} PROVE FALSE
  <2>1. Bad \in SUBSET Nat
    <3> HIDE DEF Good
    <3>1. A \subseteq Nat
      BY <1>2
    <3>2. Bad \subseteq A \union {0}
      BY Zenon
    <3> HIDE DEF Bad
    <3>3. ASSUME NEW x \in Bad PROVE x \in Nat
      <4>1. x \in A \/ x = 0
        BY <3>2, Zenon
      <4>2. CASE x \in A
        BY <3>1, <4>2, Zenon
      <4>3. CASE x = 0
        BY <4>3
      <4>4. QED
        BY <4>1, <4>2, <4>3, Zenon
    <3>4. QED
      BY <3>3, Zenon
  <2>2. PICK c \in Bad : \A e \in Bad : c <= e
    <3> HIDE DEF Bad
    <3>1. QED
      BY <1>5, <2>1, LeastElement
  <2> HIDE DEF Good
  <2>3. c \in A /\ ~Good(c) /\ c \in Nat
    BY <1>2, <1>3, <2>2
  <2>4. stack[c].next \in A \union {0} /\ stack[c].next \in Nat /\ stack[c].next < c
    BY <1>2, <2>3
  <2>5. Good(stack[c].next)
    BY <2>2, <2>3, <2>4
  <2>6. QED
    BY <1>4, <2>3, <2>5
<1>6. Good(chain)
  <2> HIDE DEF Good
  <2>1. QED
    BY <1>5
<1>7. QED
  BY <1>1, <1>6

(* No link leads to a frame that has handled an exception.                 *)
NotSpent == chain \notin spent /\ \A d \in DOMAIN stack : stack[d].next \notin spent

LEMMA InitNotSpent == Init => NotSpent
  BY DEF Init, NotSpent

LEMMA MoveNotSpent == ASSUME IInv, NotSpent, NEW a, Move(a) PROVE NotSpent'
<1>1. stack \in Seq(Activations) /\ Top \in DOMAIN stack /\ DOMAIN stack = 1 .. Top
  BY StackFacts DEF IInv
<1>2. stack' = [stack EXCEPT ![Top] = [stack[Top] EXCEPT !.at = a, !.level = LevelAt[a]]]
      /\ chain' = chain /\ spent' = spent
  BY DEF Move
<1>3. DOMAIN stack' = DOMAIN stack
  BY <1>1, <1>2
<1>4. \A d \in DOMAIN stack : stack'[d].next = stack[d].next
  BY <1>1, <1>2 DEF Activations
<1>5. QED
  BY <1>2, <1>3, <1>4 DEF NotSpent

LEMMA CallNotSpent == ASSUME IInv, NotSpent, NEW f \in Func, Call(f) PROVE NotSpent'
<1>1. CASE ~onStack
  BY <1>1 DEF Call, NotSpent
<1>2. CASE onStack
  <2> DEFINE new == Activation(f, Entry[f])
  <2>1. new.next = chain /\ new \in Activations
    BY NewActivation, ConstAssumption DEF IInv, Activation
  <2>2. stack' = Append(stack, new) /\ chain' \in {chain, Top + 1} /\ spent' = spent
    BY <1>2 DEF Call
  <2> HIDE DEF new
  <2>3. stack \in Seq(Activations) /\ Top = Len(stack) /\ Top \in Nat /\ DOMAIN stack = 1 .. Top
    BY StackFacts DEF IInv
  <2>4. /\ DOMAIN stack' = 1 .. Top + 1 /\ stack'[Top + 1] = new
        /\ \A d \in 1 .. Top : stack'[d] = stack[d]
    BY <2>1, <2>2, <2>3
  <2>5. Top + 1 \notin spent
    <3>1. spent \subseteq 1 .. Top
      BY DEF IInv, TypeOK
    <3>2. QED
      BY <2>3, <3>1
  <2>6. ASSUME NEW d \in 1 .. Top + 1 PROVE stack'[d].next \notin spent
    <3>1. d = Top + 1 \/ d \in 1 .. Top
      BY <2>3
    <3>2. QED
      BY <2>1, <2>3, <2>4, <3>1 DEF NotSpent
  <2>7. QED
    BY <2>2, <2>4, <2>5, <2>6 DEF NotSpent
<1>3. QED
  BY <1>1, <1>2

LEMMA LeaveNotSpent == ASSUME IInv, NotSpent, Leave PROVE NotSpent'
<1>1. /\ Top \in Nat /\ Top > 1 /\ Top - 1 \in 1 .. Top /\ DOMAIN stack = 1 .. Top
      /\ Current = stack[Top] /\ chain \in 0 .. Top
  BY StackFacts DEF IInv, TypeOK, Leave
<1>2. /\ stack' \in Seq(Activations) /\ Len(stack') = Top - 1
      /\ \A e \in 1 .. Top - 1 : stack'[e] = stack[e]
  BY <1>1, Cut DEF IInv, LinksOK, Leave
<1>3. DOMAIN stack' = 1 .. Top - 1 /\ \A e \in 1 .. Top - 1 : e \in DOMAIN stack
  BY <1>1, <1>2
<1>4. spent' = spent \ {Top}
  BY DEF Leave
<1>5. chain' \notin spent
  <2>1. CASE ~Registers(Current.fn)
    BY <2>1 DEF Leave, NotSpent
  <2>2. CASE Registers(Current.fn)
    <3> DEFINE own == IF "own" \in Epilogue[Current.fn] THEN Current.next ELSE chain
    <3>1. chain' = IF "head" \in Epilogue[Current.fn] /\ own # 0 THEN stack[own].next ELSE own
      BY <2>2 DEF Leave, Unlink
    <3>2. own \in 0 .. Top /\ own \notin spent
      <4>1. Current.next \in Nat /\ Current.next < Top
        BY <1>1, StackFacts DEF IInv, LinksOK, Descending
      <4>2. Current.next \notin spent /\ chain \notin spent
        BY <1>1 DEF NotSpent
      <4>3. QED
        BY <1>1, <4>1, <4>2
    <3> HIDE DEF own
    <3>3. own # 0 => own \in DOMAIN stack
      BY <1>1, <3>2
    <3>4. QED
      BY <3>1, <3>2, <3>3 DEF NotSpent
  <2>3. QED
    BY <2>1, <2>2
<1>6. QED
  BY <1>2, <1>3, <1>4, <1>5 DEF NotSpent

(* A handler of frame d leaves the links of the frames outside of d.       *)
LEMMA ExecuteNotSpent ==
  ASSUME IInv, NotSpent, mode \in {"scope", "filter"}, Execute(frame, scope)
  PROVE  NotSpent'
<1>1. frame \in 1 .. Top /\ Top \in Nat /\ DOMAIN stack = 1 .. Top
  BY Place, StackFacts DEF IInv
<1> DEFINE cut == SubSeq(stack, 1, frame)
<1>2. cut \in Seq(Activations) /\ Len(cut) = frame /\ \A e \in 1 .. frame : cut[e] = stack[e]
  BY <1>1, Cut DEF IInv, LinksOK
<1>3. stack' = [cut EXCEPT ![frame] = [cut[frame] EXCEPT !.at = Target(frame, scope), !.level = scope - 1]]
      /\ chain' = stack[frame].next /\ spent' = {e \in spent : e < frame} \union {frame}
  BY DEF Execute
<1> HIDE DEF cut
<1>4. DOMAIN stack' = 1 .. frame /\ \A e \in 1 .. frame : stack'[e].next = stack[e].next
  <2>1. DOMAIN cut = 1 .. frame /\ \A e \in 1 .. frame : cut[e] \in Activations
    BY <1>1, <1>2
  <2>2. \A e \in 1 .. frame : stack'[e].next = cut[e].next
    BY <1>3, <2>1 DEF Activations
  <2>3. QED
    BY <1>2, <1>3, <2>1, <2>2
<1>5. ASSUME NEW e \in 1 .. frame PROVE stack[e].next \notin spent'
  <2>1. e \in DOMAIN stack
    BY <1>1
  <2>2. stack[e].next < e /\ stack[e].next \in Nat /\ e <= frame /\ e \in Nat /\ frame \in Nat
    BY <1>1, <2>1, StackFacts DEF IInv, LinksOK, Descending
  <2>3. stack[e].next # frame
    BY <2>2
  <2>4. stack[e].next \notin spent
    BY <2>1 DEF NotSpent
  <2>5. QED
    BY <1>3, <2>3, <2>4
<1>6. chain' \notin spent'
  BY <1>1, <1>3, <1>5
<1>7. QED
  BY <1>4, <1>5, <1>6 DEF NotSpent

LEMMA StepNotSpent == ASSUME IInv, NotSpent, [Next]_vars PROVE NotSpent'
<1>1. ASSUME UNCHANGED <<stack, chain, spent>> PROVE NotSpent'
  BY <1>1 DEF NotSpent
<1>2. CASE Program
  <2>1. CASE Fault
    BY <1>1, <2>1 DEF Fault
  <2>2. QED
    BY <1>2, <2>1, MoveNotSpent, CallNotSpent, LeaveNotSpent DEF Program
<1>3. CASE Dispatch
  <2>1. CASE GiveUp \/ Visit \/ Terminate \/ PassOver \/ CallFilter \/ NextFrame
    BY <1>1, <2>1 DEF GiveUp, Visit, Terminate, PassOver, CallFilter, NextFrame, program
  <2>2. CASE NoFilter
    BY <2>2, ExecuteNotSpent DEF NoFilter
  <2>3. ASSUME NEW a \in Answers, Answer(a) PROVE NotSpent'
    <3>1. CASE a = 1
      BY <2>3, <3>1, ExecuteNotSpent DEF Answer
    <3>2. CASE a # 1
      BY <1>1, <2>3, <3>2 DEF Answer, program
    <3>3. QED
      BY <3>1, <3>2
  <2>4. QED
    BY <1>3, <2>1, <2>2, <2>3 DEF Dispatch
<1>4. CASE UNCHANGED vars
  BY <1>1, <1>4 DEF vars
<1>5. QED
  BY <1>2, <1>3, <1>4 DEF Next

LEMMA Invariant == ASSUME EpiloguesUnlink PROVE Spec => [](IInv /\ NotSpent)
<1>1. Init => IInv /\ NotSpent
  BY InitInv, InitNotSpent
<1>2. IInv /\ NotSpent /\ [Next]_vars => (IInv /\ NotSpent)'
  BY StepInv, StepNotSpent
<1>3. QED
  BY <1>1, <1>2, PTL DEF Spec

(* gs:[0] never leads to a frame that is gone or that has handled an       *)
(* exception, through calls, the unwinding of execute_handler              *)
(* (w2kseh64.py:346-378) and epilogues, those that have both restores      *)
(* included (_seh.py:567-613).                                             *)
THEOREM ChainIsSound ==
  ASSUME EpiloguesUnlink
  PROVE  Spec => []ChainSound
<1>1. IInv /\ NotSpent => ChainSound
  <2> SUFFICES ASSUME IInv, NotSpent PROVE ChainSound
    OBVIOUS
  <2>1. DOMAIN stack = 1 .. Top /\ Descending(stack) /\ IsLink(stack, chain)
    BY StackFacts DEF IInv, LinksOK
  <2>2. chain \in Active \union {0}
    BY <2>1 DEF IsLink, NotSpent, Active
  <2>3. ASSUME NEW d \in Active PROVE stack[d].next \in Active \union {0}
    <3>1. d \in DOMAIN stack
      BY <2>1 DEF Active
    <3>2. IsLink(stack, stack[d].next) /\ stack[d].next \notin spent
      BY <2>1, <3>1 DEF Descending, NotSpent
    <3>3. QED
      BY <2>1, <3>2 DEF IsLink, Active
  <2>4. Active \in SUBSET (1 .. Top)
    BY DEF Active
  <2>5. QED
    BY <2>2, <2>3, <2>4, LinkedIn DEF IInv, ChainSound
<1>2. QED
  BY <1>1, Invariant, PTL

-----------------------------------------------------------------------------
(* The search.  It has counted the linked frames it has passed, and every  *)
(* scope before the place it is at has a filter that has not taken it.     *)
Passed(d) == {e \in Linked : e > d}
Met ==
  /\ mode = "chain" =>
       /\ frame \in Linked \union {0}
       /\ count = Cardinality(Passed(frame))
       /\ \A c \in Candidates : c[1] > frame => NotTaken(c)
  /\ mode \in {"scope", "filter"} =>
       /\ frame \in Linked /\ stack[frame].fn \notin Foreign
       /\ count = Cardinality(Passed(frame)) + 1
       /\ \A c \in Candidates : Before(c, <<frame, scope>>) => NotTaken(c)

LEMMA LinkedFacts ==
  ASSUME IInv
  PROVE  /\ Linked \in SUBSET Nat /\ Linked \subseteq 1 .. Top /\ IsFiniteSet(Linked) /\ Top \in Nat
         /\ chain \in Nat /\ chain \in Linked \union {0} /\ \A e \in Linked : e <= chain
         /\ \A d \in Linked :
              /\ stack[d].next \in Nat /\ stack[d].next < d
              /\ stack[d].next \in Linked \union {0}
              /\ \A e \in Linked : e < d => e <= stack[d].next
<1>1. /\ Top \in Nat /\ DOMAIN stack = 1 .. Top /\ chain \in 0 .. Top
      /\ \A d \in 1 .. Top : stack[d].next \in Nat /\ stack[d].next < d
  BY StackFacts DEF IInv, TypeOK, LinksOK, Descending
<1>2. chain \in (1 .. Top) \union {0} /\ \A d \in 1 .. Top : stack[d].next \in (1 .. Top) \union {0}
  BY <1>1
<1>3. /\ Linked \subseteq 1 .. Top
      /\ chain \in Linked \union {0} /\ \A e \in Linked : e <= chain
      /\ \A d \in Linked :
           /\ stack[d].next \in Linked \union {0}
           /\ \A e \in Linked : e < d => e <= stack[d].next
  BY <1>2, LinkedIn DEF IInv
<1>4. IsFiniteSet(Linked)
  <2>1. IsFiniteSet(1 .. Top)
    BY <1>1, FS_Interval
  <2>2. QED
    BY <1>3, <2>1, FS_Subset
<1>5. Linked \in SUBSET Nat /\ chain \in Nat
  BY <1>1, <1>3
<1>6. QED
  BY <1>1, <1>3, <1>4, <1>5

LEMMA CandidateFacts ==
  ASSUME IInv, NEW c \in Candidates
  PROVE  /\ c[1] \in Linked /\ c[1] \in Nat /\ c[2] \in Nat
         /\ stack[c[1]].fn \notin Foreign /\ Cardinality(Passed(c[1])) < MaxWalk
         /\ Covers(c[1], c[2])
         /\ c[2] <= FirstScope(c[1])
<1>1. PICK d \in 1 .. Top : c \in {d} \X (0 .. FirstScope(d)) /\ Reached(c[1]) /\ Covers(c[1], c[2])
  BY DEF Candidates
<1>2. FirstScope(d) \in Int
  <2>1. stack[d].level \in Int
    BY StackFacts DEF IInv, Activations
  <2>2. QED
    BY <2>1 DEF FirstScope
<1>3. c[1] = d /\ c[2] \in 0 .. FirstScope(d)
  BY <1>1
<1>4. c[2] \in Nat /\ c[2] <= FirstScope(c[1])
  BY <1>2, <1>3
<1>5. Linked \in SUBSET Nat
  BY LinkedFacts
<1>6. QED
  BY <1>1, <1>4, <1>5 DEF Reached, Passed

LEMMA PassedNext ==
  ASSUME IInv, NEW d \in Linked
  PROVE  /\ Cardinality(Passed(stack[d].next)) = Cardinality(Passed(d)) + 1
         /\ Cardinality(Passed(d)) \in Nat
<1> DEFINE H == Linked
<1>1. /\ H \in SUBSET Nat /\ H \subseteq 1 .. Top /\ IsFiniteSet(H) /\ d \in H
      /\ \A e \in H :
           /\ stack[e].next \in Nat /\ stack[e].next < e
           /\ \A x \in H : x < e => x <= stack[e].next
  BY LinkedFacts
<1>2. Passed(d) = {e \in H : e > d} /\ Passed(stack[d].next) = {e \in H : e > stack[d].next}
  BY DEF Passed
<1> HIDE DEF H
<1>3. IsFiniteSet(Passed(d)) /\ d \notin Passed(d)
  BY <1>1, <1>2, FS_Subset
<1>4. Passed(stack[d].next) = Passed(d) \union {d}
  <2>1. stack[d].next \in Nat /\ stack[d].next < d /\ d \in Nat /\ \A x \in H : x < d => x <= stack[d].next
    BY <1>1
  <2>2. ASSUME NEW x \in H PROVE x > stack[d].next <=> (x > d \/ x = d)
    BY <1>1, <2>1
  <2>3. QED
    BY <1>1, <1>2, <2>2
<1>5. QED
  BY <1>3, <1>4, FS_AddElement, FS_CardinalityType

LEMMA SameCandidates ==
  ASSUME UNCHANGED <<stack, chain, spent>>
  PROVE  Candidates' = Candidates /\ Linked' = Linked
         /\ \A d : Passed(d)' = Passed(d)
  BY DEF Candidates, Reached, Linked, Covers, Record, Dword, Current, Top, FirstScope, Passed

(* What a step of the search does to the scopes that were not taken.       *)
LEMMA StillNotTaken ==
  ASSUME IInv, NEW c, NotTaken(c),
         asked' = asked \/ \E r \in (1 .. MaxDepth) \X Nat \X Answers : asked' = Append(asked, r)
  PROVE  NotTaken(c)'
<1>1. PICK n \in DOMAIN asked : asked[n][1] = c[1] /\ asked[n][2] = c[2] /\ asked[n][3] # 1
  BY DEF NotTaken
<1>2. asked \in Seq((1 .. MaxDepth) \X Nat \X Answers)
  BY Place
<1>3. ASSUME NEW r \in (1 .. MaxDepth) \X Nat \X Answers, asked' = Append(asked, r)
      PROVE  n \in DOMAIN asked' /\ asked'[n] = asked[n]
  BY <1>1, <1>2, <1>3
<1>4. n \in DOMAIN asked' /\ asked'[n] = asked[n]
  BY <1>1, <1>3
<1>5. QED
  BY <1>1, <1>4 DEF NotTaken

LEMMA FaultMet == ASSUME IInv, Fault PROVE Met'
<1>1. CASE onStack
  <2>1. /\ mode' = "chain" /\ frame' = chain /\ count' = 0
        /\ UNCHANGED <<stack, chain, spent>>
    BY <1>1 DEF Fault
  <2>2. Candidates' = Candidates /\ Linked' = Linked
        /\ Passed(chain)' = Passed(chain)
    BY <2>1, SameCandidates
  <2>3. chain \in Linked \union {0} /\ chain \in Nat
        /\ \A e \in Linked : e \in Nat /\ e <= chain
    BY LinkedFacts DEF IInv
  <2>4. Passed(chain) = {}
    <3>1. ASSUME NEW e \in Passed(chain) PROVE FALSE
      <4>1. e \in Linked /\ e > chain
        BY DEF Passed
      <4>2. e \in Nat /\ e <= chain /\ chain \in Nat
        BY <2>3, <4>1
      <4>3. QED
        BY <4>1, <4>2
    <3>2. QED
      BY <3>1
  <2>5. Cardinality(Passed(chain)) = 0
    BY <2>4, FS_EmptySet
  <2>6. ASSUME NEW c \in Candidates PROVE ~(c[1] > chain)
    <3>1. c[1] \in Linked
      BY CandidateFacts DEF IInv
    <3>2. c[1] \in Nat /\ c[1] <= chain /\ chain \in Nat
      BY <2>3, <3>1
    <3>3. QED
      BY <3>2
  <2>7. Passed(frame)' = Passed(chain)
    BY <2>1, <2>2 DEF Passed
  <2>8. QED
    BY <2>1, <2>2, <2>3, <2>5, <2>6, <2>7 DEF Met
<1>2. CASE ~onStack
  BY <1>2 DEF Fault, Met
<1>3. QED
  BY <1>1, <1>2

(* The search goes on from frame d to the next one.                        *)
LEMMA ToNextFrame ==
  ASSUME IInv, UNCHANGED <<stack, chain, spent>>, asked' = asked,
         frame \in Linked, frame' = stack[frame].next, mode' = "chain",
         count' = Cardinality(Passed(frame)) + 1,
         \A c \in Candidates : c[1] >= frame => NotTaken(c)
  PROVE  Met'
<1>1. Candidates' = Candidates /\ Linked' = Linked
      /\ \A d : Passed(d)' = Passed(d)
  BY SameCandidates
<1> DEFINE n == stack[frame].next
<1>2. /\ n \in Nat /\ n < frame /\ n \in Linked \union {0} /\ frame \in Nat
      /\ \A e \in Linked : e \in Nat /\ (e < frame => e <= n)
  BY LinkedFacts DEF IInv
<1>3. Cardinality(Passed(n)) = Cardinality(Passed(frame)) + 1
  BY PassedNext DEF IInv
<1> HIDE DEF n
<1>4. ASSUME NEW c \in Candidates, c[1] > n PROVE NotTaken(c)'
  <2>1. c[1] \in Linked
    BY CandidateFacts DEF IInv
  <2>2. c[1] \in Nat /\ (c[1] < frame => c[1] <= n)
    BY <1>2, <2>1
  <2>3. c[1] >= frame
    BY <1>2, <1>4, <2>2
  <2>4. QED
    BY <2>3, StillNotTaken
<1>5. frame' = n /\ Passed(frame)' = Passed(n)
  BY <1>1 DEF n, Passed
<1>6. QED
  BY <1>1, <1>2, <1>3, <1>4, <1>5 DEF Met

LEMMA VisitMet == ASSUME IInv, Met, Visit PROVE Met'
<1>1. /\ mode = "chain" /\ frame # 0 /\ UNCHANGED <<stack, chain, spent>> /\ asked' = asked
      /\ count' = count + 1
  BY DEF Visit, program
<1>2. /\ frame \in Linked /\ count = Cardinality(Passed(frame))
      /\ \A c \in Candidates : c[1] > frame => NotTaken(c)
      /\ frame \in Nat
  BY <1>1, LinkedFacts DEF Met, IInv
<1>3. CASE stack[frame].fn \in Foreign
  <2>1. mode' = "chain" /\ frame' = stack[frame].next
    BY <1>1, <1>3 DEF Visit
  <2>2. ASSUME NEW c \in Candidates, c[1] >= frame PROVE NotTaken(c)
    <3>1. c[1] # frame /\ c[1] \in Nat
      BY <1>3, CandidateFacts DEF IInv
    <3>2. QED
      BY <1>2, <2>2, <3>1
  <2>3. QED
    BY <1>1, <1>2, <2>1, <2>2, ToNextFrame
<1>4. CASE stack[frame].fn \notin Foreign
  <2>1. /\ mode' = "scope" /\ frame' = frame
        /\ scope' = FirstScope(frame)
    BY <1>4 DEF Visit, FirstScope
  <2>2. Candidates' = Candidates /\ Linked' = Linked
        /\ Passed(frame)' = Passed(frame)
    BY <1>1, <2>1, SameCandidates DEF Passed
  <2>3. ASSUME NEW c \in Candidates, Before(c, <<frame', scope'>>) PROVE NotTaken(c)'
    <3>1. c[1] \in Nat /\ c[2] \in Nat
          /\ c[2] <= FirstScope(c[1])
      BY CandidateFacts DEF IInv
    <3>2. c[1] > frame \/ (c[1] = frame /\ c[2] > scope')
      BY <2>1, <2>3 DEF Before
    <3>3. scope' \in Int
      <4>1. stack[frame].level \in Int
        BY <1>2, LinkedFacts, StackFacts DEF IInv, Activations
      <4>2. QED
        BY <2>1, <4>1 DEF FirstScope
    <3>4. c[1] > frame
      BY <2>1, <3>1, <3>2, <3>3
    <3>5. QED
      BY <1>1, <1>2, <3>4, StillNotTaken
  <2>4. QED
    BY <1>1, <1>2, <1>4, <2>1, <2>2, <2>3 DEF Met
<1>5. QED
  BY <1>3, <1>4

LEMMA PassOverMet == ASSUME IInv, Met, PassOver PROVE Met'
<1>1. /\ mode = "scope" /\ UNCHANGED <<stack, chain, spent>> /\ asked' = asked
      /\ mode' = mode /\ frame' = frame /\ count' = count /\ scope' = scope - 1
      /\ ~Covers(frame, scope) /\ scope \in Int /\ frame \in Nat
  BY Place DEF PassOver, program
<1>2. Candidates' = Candidates /\ Linked' = Linked
      /\ Passed(frame)' = Passed(frame)
  BY <1>1, SameCandidates DEF Passed
<1>3. ASSUME NEW c \in Candidates, Before(c, <<frame', scope'>>) PROVE NotTaken(c)'
  <2>1. c[1] \in Nat /\ c[2] \in Nat /\ Covers(c[1], c[2])
    BY CandidateFacts DEF IInv
  <2>2. ~(c[1] = frame /\ c[2] = scope)
    BY <1>1, <2>1
  <2>3. Before(c, <<frame, scope>>)
    BY <1>1, <1>3, <2>1, <2>2 DEF Before
  <2>4. NotTaken(c)
    BY <1>1, <2>3 DEF Met
  <2>5. QED
    BY <1>1, <2>4, StillNotTaken
<1>4. QED
  BY <1>1, <1>2, <1>3 DEF Met

LEMMA CallFilterMet == ASSUME IInv, Met, CallFilter PROVE Met'
<1>1. /\ mode = "scope" /\ UNCHANGED <<stack, chain, spent>> /\ asked' = asked
      /\ mode' \in {"filter", "wild"} /\ frame' = frame /\ count' = count /\ scope' = scope
  BY DEF CallFilter, program, searchRegs
<1>2. Candidates' = Candidates /\ Linked' = Linked
      /\ Passed(frame)' = Passed(frame)
  BY <1>1, SameCandidates DEF Passed
<1>3. ASSUME NEW c \in Candidates, Before(c, <<frame', scope'>>) PROVE NotTaken(c)'
  <2>1. NotTaken(c)
    BY <1>1, <1>3 DEF Met, Before
  <2>2. QED
    BY <1>1, <2>1, StillNotTaken
<1>4. QED
  BY <1>1, <1>2, <1>3 DEF Met

LEMMA NextFrameMet == ASSUME IInv, Met, NextFrame PROVE Met'
<1>1. /\ mode = "scope" /\ UNCHANGED <<stack, chain, spent>> /\ asked' = asked
      /\ mode' = "chain" /\ frame' = stack[frame].next /\ count' = count /\ scope < 0
      /\ scope \in Int /\ frame \in Nat
  BY Place DEF NextFrame, program
<1>2. ASSUME NEW c \in Candidates, c[1] >= frame PROVE NotTaken(c)
  <2>1. c[1] \in Nat /\ c[2] \in Nat
    BY CandidateFacts DEF IInv
  <2>2. Before(c, <<frame, scope>>)
    BY <1>1, <1>2, <2>1 DEF Before
  <2>3. QED
    BY <1>1, <2>2 DEF Met
<1>3. QED
  BY <1>1, <1>2, ToNextFrame DEF Met

LEMMA AnswerMet == ASSUME IInv, Met, NEW a \in Answers, Answer(a) PROVE Met'
<1>1. CASE a = 1
  BY <1>1 DEF Answer, Execute, Met
<1>2. CASE a # 1
  <2>1. /\ mode = "filter" /\ UNCHANGED <<stack, chain, spent>>
        /\ asked' = Append(asked, <<frame, scope, a>>)
        /\ mode' = "scope" /\ frame' = frame /\ count' = count /\ scope' = scope - 1
        /\ scope \in Nat /\ frame \in 1 .. MaxDepth /\ frame \in Nat
        /\ asked \in Seq((1 .. MaxDepth) \X Nat \X Answers)
    <3>1. mode = "filter" /\ scope \in Nat /\ frame \in 1 .. Top /\ Top <= MaxDepth
          /\ Top \in Nat /\ MaxDepth \in Nat
      BY Place, StackFacts DEF Answer, IInv, SearchOK
    <3>2. QED
      BY <1>2, <3>1, Place DEF Answer, program
  <2>2. Candidates' = Candidates /\ Linked' = Linked
        /\ Passed(frame)' = Passed(frame)
    BY <2>1, SameCandidates DEF Passed
  <2>3. <<frame, scope, a>> \in (1 .. MaxDepth) \X Nat \X Answers
    BY <2>1
  <2>4. ASSUME NEW c \in Candidates, Before(c, <<frame', scope'>>) PROVE NotTaken(c)'
    <3>1. c[1] \in Nat /\ c[2] \in Nat
      BY CandidateFacts DEF IInv
    <3>2. CASE c[1] = frame /\ c[2] = scope
      <4>1. Len(asked) + 1 \in DOMAIN asked' /\ asked'[Len(asked) + 1] = <<frame, scope, a>>
        BY <2>1, <2>3
      <4>2. QED
        BY <1>2, <3>2, <4>1 DEF NotTaken
    <3>3. CASE ~(c[1] = frame /\ c[2] = scope)
      <4>1. Before(c, <<frame, scope>>)
        BY <2>1, <2>4, <3>1, <3>3 DEF Before
      <4>2. NotTaken(c)
        BY <2>1, <4>1 DEF Met
      <4>3. QED
        BY <2>1, <2>3, <4>2, StillNotTaken
    <3>4. QED
      BY <3>2, <3>3
  <2>5. QED
    BY <2>1, <2>2, <2>4 DEF Met
<1>3. QED
  BY <1>1, <1>2

LEMMA StepMet == ASSUME IInv, Met, [Next]_vars PROVE Met'
<1>1. CASE Program
  <2>1. ASSUME NEW a, Move(a) PROVE Met'
    BY <2>1 DEF Move, Met
  <2>2. ASSUME NEW f \in Func, Call(f) PROVE Met'
    BY <2>2 DEF Call, Met
  <2>3. CASE Leave
    BY <2>3 DEF Leave, Met
  <2>4. QED
    BY <1>1, <2>1, <2>2, <2>3, FaultMet DEF Program
<1>2. CASE Dispatch
  <2>1. CASE GiveUp
    BY <2>1 DEF GiveUp, Met
  <2>2. CASE Terminate
    BY <2>2 DEF Terminate, Met
  <2>3. CASE NoFilter
    BY <2>3 DEF NoFilter, Execute, Met
  <2>4. QED
    BY <1>2, <2>1, <2>2, <2>3, VisitMet, PassOverMet, CallFilterMet, NextFrameMet, AnswerMet
       DEF Dispatch
<1>3. CASE UNCHANGED vars
  <2>1. /\ UNCHANGED <<stack, chain, spent>> /\ asked' = asked /\ mode' = mode
        /\ frame' = frame /\ count' = count /\ scope' = scope
    BY <1>3 DEF vars, searchRegs
  <2>2. Candidates' = Candidates /\ Linked' = Linked
        /\ Passed(frame)' = Passed(frame)
    BY <2>1, SameCandidates DEF Passed
  <2>3. \A c : NotTaken(c)' <=> NotTaken(c)
    BY <2>1 DEF NotTaken
  <2>4. QED
    BY <2>1, <2>2, <2>3 DEF Met, Before
<1>4. QED
  BY <1>1, <1>2, <1>3 DEF Next

(* SearchInOrder, of one step.                                                *)
Taken ==
  /\ mode \in {"scope", "filter"} /\ mode' = "run" =>
          /\ \A c \in Candidates : Before(c, <<frame, scope>>) => NotTaken(c)
          /\ \/ Record(frame, scope).filter < Low
             \/ asked' = Append(asked, <<frame, scope, 1>>)
  /\ mode = "chain" /\ mode' = "search" => \A c \in Candidates : NotTaken(c)

LEMMA StepTaken == ASSUME IInv, Met, [Next]_vars PROVE Taken
<1>1. ASSUME mode \in {"scope", "filter"}, mode' = "run"
      PROVE  /\ \A c \in Candidates : Before(c, <<frame, scope>>) => NotTaken(c)
             /\ \/ Record(frame, scope).filter < Low
                \/ asked' = Append(asked, <<frame, scope, 1>>)
  <2>1. \A c \in Candidates : Before(c, <<frame, scope>>) => NotTaken(c)
    BY <1>1 DEF Met
  <2>2. NoFilter \/ \E a \in Answers : a = 1 /\ Answer(a)
    BY <1>1 DEF Next, vars, Program, Dispatch, Move, Call, Leave, Fault, GiveUp, Visit,
       Terminate, PassOver, CallFilter, NextFrame, Answer
  <2>3. CASE NoFilter
    BY <2>1, <2>3 DEF NoFilter
  <2>4. ASSUME NEW a \in Answers, a = 1, Answer(a)
        PROVE  asked' = Append(asked, <<frame, scope, 1>>)
    BY <2>4 DEF Answer
  <2>5. QED
    BY <2>1, <2>2, <2>3, <2>4
<1>2. ASSUME mode = "chain", mode' = "search", NEW c \in Candidates
      PROVE  NotTaken(c)
  <2>1. GiveUp
    BY <1>2 DEF Next, vars, Program, Dispatch, Move, Call, Leave, Fault, GiveUp, Visit,
       Terminate, PassOver, CallFilter, NextFrame, NoFilter, Answer, Execute
  <2>2. /\ frame \in Linked \union {0} /\ count = Cardinality(Passed(frame))
        /\ \A e \in Candidates : e[1] > frame => NotTaken(e)
    BY <1>2 DEF Met
  <2>3. /\ c[1] \in Linked /\ c[1] \in Nat /\ Cardinality(Passed(c[1])) < MaxWalk
        /\ Linked \in SUBSET Nat /\ IsFiniteSet(Linked)
        /\ Linked \subseteq 1 .. Top /\ Top \in Nat /\ MaxWalk \in Nat
    BY CandidateFacts, LinkedFacts, Place DEF IInv
  <2>4. CASE frame = 0
    <3>1. c[1] > frame
      BY <2>3, <2>4
    <3>2. QED
      BY <2>2, <3>1
  <2>5. CASE count + 1 > MaxWalk
    <3>1. frame \in Nat
      BY <2>2, <2>3
    <3>2. SUFFICES ASSUME c[1] <= frame PROVE FALSE
      BY <2>2, <2>3, <3>1
    <3>3. Passed(frame) \subseteq Passed(c[1])
      <4>1. ASSUME NEW e \in Linked, e > frame PROVE e > c[1]
        BY <2>3, <3>1, <3>2, <4>1
      <4>2. QED
        BY <4>1 DEF Passed
    <3>4. IsFiniteSet(Passed(c[1]))
      BY <2>3, FS_Subset DEF Passed
    <3>5. /\ Cardinality(Passed(frame)) <= Cardinality(Passed(c[1]))
          /\ Cardinality(Passed(c[1])) \in Nat /\ Cardinality(Passed(frame)) \in Nat
      BY <3>3, <3>4, FS_Subset, FS_CardinalityType
    <3>6. QED
      BY <2>2, <2>3, <2>5, <3>5
  <2>6. QED
    BY <2>1, <2>4, <2>5 DEF GiveUp
<1>3. QED
  BY <1>1, <1>2 DEF Taken

(* A search goes through the frames of gs:[0] and their scopes from the    *)
(* inside out and leaves none out: the handler it enters is that of a      *)
(* scope without a filter or whose filter has answered EXECUTE_HANDLER,    *)
(* and every scope within MaxWalk frames that it has passed, or all when   *)
(* it gives up, has a filter that has answered another thing (the walk and *)
(* the scope loop, w2kseh64.py 268-343 and 381-438).                       *)
THEOREM ScopesInOrder ==
  ASSUME EpiloguesUnlink
  PROVE  Spec => SearchInOrder
<1>1. Init => Met
  BY DEF Init, Met
<1>2. IInv /\ Met /\ [Next]_vars => Met'
  BY StepMet
<1>3. IInv /\ Met /\ [Next]_vars => Taken
  BY StepTaken
<1>4. Spec => []IInv
  BY Invariant, PTL
<1>5. Spec => [][Taken]_vars
  BY <1>1, <1>2, <1>3, <1>4, PTL DEF Spec
<1>6. QED
  BY <1>5 DEF SearchInOrder, Taken
=============================================================================
