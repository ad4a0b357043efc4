---------------------------- MODULE SetJmpProofs ----------------------------
(***************************************************************************)
(* Proofs about SetJmp for any number of threads, buffers and nested       *)
(* calls: first the registers, then the list at gs:[0].                    *)
(***************************************************************************)
EXTENDS SetJmp, SequenceTheorems, TLAPS

SetPCs == {"set_spill"}
JumpPCs == {"jmp_spill", "jmp_last"}

(* A buffer that may be jumped to holds what its thread had, and the       *)
(* function that set it has not returned.                                  *)
BufferOK(b) ==
  saved[b].depth # 0 =>
    /\ buf[b].depth = saved[b].depth
    /\ buf[b].link = saved[b].link
    /\ \A r \in Private : buf[b].regs[r] = saved[b].regs[r]
    /\ saved[b].depth <= Depth(Home[b])

(* A thread inside a stub works on a buffer of its own, ...                *)
StubOK(t) ==
  /\ pc[t] \in {"set_spill", "unwound", "resumed"} \union JumpPCs
       => arg[t] \in Buffers /\ Home[arg[t]] = t
  /\ pc[t] \in {"set_spill", "unwound", "resumed"} => saved[arg[t]].depth # 0
  /\ pc[t] \in JumpPCs => saved[arg[t]].depth # 0 \/ buf[arg[t]].depth = 0
  /\ pc[t] \notin {"set_spill", "jmp_spill"} => next[t] = 1

(* ... has the registers it is storing, and has what it loaded.            *)
LoadedOK(t) ==
  /\ pc[t] = "set_spill" => regs[t] = saved[arg[t]].regs
  /\ pc[t] \in JumpPCs =>
       \A r \in Private : regs[t][r] = buf[arg[t]].regs[r]
  /\ pc[t] = "resumed" =>
       /\ Depth(t) = saved[arg[t]].depth
       /\ chain[t] = saved[arg[t]].link
       /\ \A r \in Private : regs[t][r] = saved[arg[t]].regs[r]
       /\ rax[t] # 0

(* While no other setjmp has begun since that of b, the shared slot holds  *)
(* what it stored, as far as it has come.                                  *)
SlotOK(b) ==
  alone[b] = TRUE =>
    /\ \A t \in Threads : pc[t] = "set_spill" => arg[t] = b
    /\ saved[b].depth # 0 =>
         \A i \in DOMAIN SpillOrder :
           (pc[Home[b]] = "set_spill" => i < next[Home[b]])
             => slot[SpillOrder[i]] = saved[b].regs[SpillOrder[i]]

(* A jump to it has loaded as much of that as its loop has passed.         *)
SpilledOK(t) ==
  /\ pc[t] = "jmp_spill" /\ alone[arg[t]] = TRUE /\ saved[arg[t]].depth # 0 =>
       \A i \in DOMAIN SpillOrder :
         i < next[t]
           => regs[t][SpillOrder[i]] = saved[arg[t]].regs[SpillOrder[i]]
  /\ pc[t] \in {"jmp_last", "resumed"} /\ alone[arg[t]] = TRUE
       /\ saved[arg[t]].depth # 0 =>
       \A r \in Shared : regs[t][r] = saved[arg[t]].regs[r]

IInv ==
  /\ TypeOK
  /\ \A b \in Buffers : BufferOK(b)
  /\ \A t \in Threads : StubOK(t)
  /\ \A t \in Threads : LoadedOK(t)
  /\ \A b \in Buffers : SlotOK(b)
  /\ \A t \in Threads : SpilledOK(t)

-----------------------------------------------------------------------------
(* The three shared registers, and the others.                             *)
LEMMA SpillFacts ==
  /\ SpillOrder \in Seq(Regs)
  /\ Len(SpillOrder) = 3
  /\ DOMAIN SpillOrder = 1 .. 3
  /\ Shared = {"r12", "r14", "r15"}
  /\ Private = {"rbx", "r13"}
  /\ \A i \in 1 .. 3 : SpillOrder[i] \in Shared
  /\ \A r \in Shared : \E i \in 1 .. 3 : SpillOrder[i] = r
<1>1. SpillOrder \in Seq(Regs) /\ Len(SpillOrder) = 3
  BY DEF SpillOrder, Regs
<1>2. DOMAIN SpillOrder = 1 .. 3
  BY DEF SpillOrder
<1>3. /\ SpillOrder[1] = "r12"
      /\ SpillOrder[2] = "r14"
      /\ SpillOrder[3] = "r15"
  BY DEF SpillOrder
<1>4. Shared = {"r12", "r14", "r15"}
  BY <1>2, <1>3 DEF Shared
<1>5. Private = {"rbx", "r13"}
  BY <1>4 DEF Private, Regs
<1>6. \A i \in 1 .. 3 : SpillOrder[i] \in Shared
  BY <1>2 DEF Shared
<1>7. \A r \in Shared : \E i \in 1 .. 3 : SpillOrder[i] = r
  BY <1>2 DEF Shared
<1> QED
  BY <1>1, <1>2, <1>4, <1>5, <1>6, <1>7

(* The parts of the types, with what they contain named.                   *)
Frame == [regs : [Regs -> Vals], link : Seq(Nat)]

LEMMA TypeFacts ==
  ASSUME TypeOK, NEW t \in Threads
  PROVE  /\ regs[t] \in [Regs -> Vals]
         /\ frames[t] \in Seq(Frame)
         /\ Depth(t) \in Nat /\ Depth(t) >= 1
         /\ Depth(t) <= MaxDepth[t] /\ MaxDepth[t] \in Nat
         /\ chain[t] \in Seq(Nat)
         /\ next[t] \in 1 .. 3
         /\ rax[t] \in {0, 1, 2}
<1>1. /\ regs[t] \in [Regs -> Vals]
      /\ frames[t] \in Seq(Frame)
      /\ chain[t] \in Seq(Nat)
      /\ rax[t] \in {0, 1, 2}
  BY DEF TypeOK, Frame
<1>2. next[t] \in 1 .. 3
  BY SpillFacts DEF TypeOK
<1>3. MaxDepth[t] \in Nat
  BY ConstAssumption
<1>4. Depth(t) \in 1 .. MaxDepth[t]
  BY DEF TypeOK
<1> QED
  BY <1>1, <1>2, <1>3, <1>4

LEMMA BufferTypes ==
  ASSUME TypeOK, NEW b \in Buffers
  PROVE  /\ buf[b].regs \in [Private -> Vals]
         /\ buf[b].depth \in Nat
         /\ buf[b].link \in Seq(Nat)
         /\ saved[b].regs \in [Regs -> Vals]
         /\ saved[b].depth \in Nat
         /\ saved[b].link \in Seq(Nat)
         /\ alone[b] \in BOOLEAN
         /\ Home[b] \in Threads
<1>1. buf[b] \in [regs : [Private -> Vals], depth : Nat, link : Seq(Nat)]
  BY DEF TypeOK
<1>2. saved[b] \in [regs : [Regs -> Vals], depth : Nat, link : Seq(Nat)]
  BY DEF TypeOK
<1>3. alone[b] \in BOOLEAN /\ Home[b] \in Threads
  BY ConstAssumption DEF TypeOK
<1> QED
  BY <1>1, <1>2, <1>3

(* Zeros and values.                                                       *)
LEMMA ValFacts ==
  /\ 0 \in Vals
  /\ \A t \in Threads : Work[t] \subseteq Vals
  /\ Zeros(Regs) \in [Regs -> Vals]
  /\ Zeros(Private) \in [Private -> Vals]
  /\ Zeros(Shared) \in [Shared -> Vals]
  /\ Dead \in [regs : [Regs -> Vals], depth : Nat, link : Seq(Nat)]
  /\ Dead.depth = 0
<1>1. 0 \in Vals /\ \A t \in Threads : Work[t] \subseteq Vals
  BY DEF Vals
<1>2. /\ Zeros(Regs) \in [Regs -> Vals]
      /\ Zeros(Private) \in [Private -> Vals]
      /\ Zeros(Shared) \in [Shared -> Vals]
  BY <1>1 DEF Zeros
<1>3. << >> \in Seq(Nat)
  OBVIOUS
<1> QED
  BY <1>1, <1>2, <1>3 DEF Dead

(* What Bury does to one buffer.                                           *)
LEMMA BuryFacts ==
  ASSUME TypeOK, NEW t \in Threads, NEW d \in Nat, Bury(t, d)
  PROVE  /\ saved' \in [Buffers -> [regs : [Regs -> Vals], depth : Nat,
                                    link : Seq(Nat)]]
         /\ \A b \in Buffers :
              /\ saved'[b].depth # 0 => saved'[b] = saved[b]
              /\ Home[b] # t => saved'[b] = saved[b]
              /\ saved[b].depth <= d => saved'[b] = saved[b]
              /\ Home[b] = t => saved'[b].depth <= d
<1>1. \A b \in Buffers :
        saved'[b] = IF Home[b] = t /\ saved[b].depth > d
                      THEN Dead ELSE saved[b]
  BY DEF Bury
<1>2. saved' \in [Buffers -> [regs : [Regs -> Vals], depth : Nat,
                              link : Seq(Nat)]]
  BY ValFacts DEF Bury, TypeOK
<1>3. \A b \in Buffers :
        /\ saved'[b].depth # 0 => saved'[b] = saved[b]
        /\ Home[b] # t => saved'[b] = saved[b]
        /\ saved[b].depth <= d => saved'[b] = saved[b]
        /\ Home[b] = t => saved'[b].depth <= d
  <2> TAKE b \in Buffers
  <2>1. saved[b].depth \in Nat
    BY BufferTypes
  <2>2. CASE Home[b] = t /\ saved[b].depth > d
    <3>1. saved'[b].depth = 0
      BY <1>1, <2>2, ValFacts
    <3> QED
      BY <2>1, <2>2, <3>1
  <2>3. CASE ~(Home[b] = t /\ saved[b].depth > d)
    <3>1. saved'[b] = saved[b]
      BY <1>1, <2>3
    <3> QED
      BY <2>1, <2>3, <3>1
  <2> QED
    BY <2>2, <2>3
<1> QED
  BY <1>2, <1>3

-----------------------------------------------------------------------------
(* What a step of t leaves alone: all that the other threads have and the  *)
(* buffers that are theirs, except that it may end their being alone.      *)
OthersSame(t) ==
  /\ \A u \in Threads \ {t} :
       /\ pc'[u] = pc[u] /\ arg'[u] = arg[u] /\ next'[u] = next[u]
       /\ regs'[u] = regs[u] /\ frames'[u] = frames[u]
       /\ chain'[u] = chain[u] /\ rax'[u] = rax[u]
  /\ \A b \in Buffers :
       Home[b] # t =>
         /\ saved'[b] = saved[b] /\ buf'[b] = buf[b]
         /\ alone'[b] = TRUE => alone[b] = TRUE

LEMMA OthersKept ==
  ASSUME IInv, NEW t \in Threads, OthersSame(t)
  PROVE  /\ \A u \in Threads \ {t} :
              StubOK(u)' /\ LoadedOK(u)' /\ SpilledOK(u)'
         /\ \A b \in Buffers : Home[b] # t => BufferOK(b)'
<1>1. ASSUME NEW u \in Threads \ {t}
      PROVE  StubOK(u)' /\ LoadedOK(u)' /\ SpilledOK(u)'
  <2>1. /\ pc'[u] = pc[u] /\ arg'[u] = arg[u] /\ next'[u] = next[u]
        /\ regs'[u] = regs[u] /\ frames'[u] = frames[u]
        /\ chain'[u] = chain[u] /\ rax'[u] = rax[u]
    BY <1>1 DEF OthersSame
  <2>2. StubOK(u) /\ LoadedOK(u) /\ SpilledOK(u)
    BY <1>1 DEF IInv
  <2>3. CASE pc[u] \in {"set_spill", "unwound", "resumed"} \union JumpPCs
    <3>1. arg[u] \in Buffers /\ Home[arg[u]] = u
      BY <2>2, <2>3 DEF StubOK
    <3>2. /\ saved'[arg[u]] = saved[arg[u]] /\ buf'[arg[u]] = buf[arg[u]]
          /\ alone'[arg[u]] = TRUE => alone[arg[u]] = TRUE
      BY <1>1, <3>1 DEF OthersSame
    <3>3. StubOK(u)'
      BY <2>1, <2>2, <3>1, <3>2 DEF StubOK, JumpPCs
    <3>4. LoadedOK(u)'
      BY <2>1, <2>2, <3>1, <3>2 DEF LoadedOK, JumpPCs, Depth
    <3>5. SpilledOK(u)'
      BY <2>1, <2>2, <3>1, <3>2 DEF SpilledOK
    <3> QED
      BY <3>3, <3>4, <3>5
  <2>4. CASE pc[u] \notin {"set_spill", "unwound", "resumed"} \union JumpPCs
    BY <2>1, <2>2, <2>4 DEF StubOK, LoadedOK, SpilledOK, JumpPCs
  <2> QED
    BY <2>3, <2>4
<1>2. ASSUME NEW b \in Buffers, Home[b] # t
      PROVE  BufferOK(b)'
  <2>1. saved'[b] = saved[b] /\ buf'[b] = buf[b]
    BY <1>2 DEF OthersSame
  <2>2. frames'[Home[b]] = frames[Home[b]]
    BY <1>2, ConstAssumption DEF OthersSame
  <2>3. BufferOK(b)
    BY DEF IInv
  <2> QED
    BY <2>1, <2>2, <2>3 DEF BufferOK, Depth
<1> QED
  BY <1>1, <1>2

(* A step that is no part of _setjmp3 and does not touch the slot.         *)
SlotSame(t) ==
  /\ slot' = slot /\ alone' = alone
  /\ \A u \in Threads :
       /\ pc'[u] = "set_spill" <=> pc[u] = "set_spill"
       /\ pc[u] = "set_spill" => next'[u] = next[u] /\ arg'[u] = arg[u]
  /\ \A b \in Buffers : saved'[b].depth # 0 => saved'[b] = saved[b]

LEMMA SlotKept ==
  ASSUME IInv, NEW t \in Threads, SlotSame(t)
  PROVE  \A b \in Buffers : SlotOK(b)'
<1> SUFFICES ASSUME NEW b \in Buffers
             PROVE  SlotOK(b)'
  OBVIOUS
<1>1. SlotOK(b) /\ Home[b] \in Threads
  BY ConstAssumption DEF IInv
<1>2. saved'[b].depth # 0 => saved'[b] = saved[b]
  BY DEF SlotSame
<1>3. /\ slot' = slot /\ alone' = alone
      /\ \A u \in Threads :
           /\ pc'[u] = "set_spill" <=> pc[u] = "set_spill"
           /\ pc[u] = "set_spill" => next'[u] = next[u] /\ arg'[u] = arg[u]
  BY DEF SlotSame
<1>4. alone[b] = TRUE =>
        \A u \in Threads : pc'[u] = "set_spill" => arg'[u] = b
  BY <1>1, <1>3 DEF SlotOK
<1>5. ASSUME alone[b] = TRUE, saved'[b].depth # 0,
             NEW i \in DOMAIN SpillOrder,
             pc'[Home[b]] = "set_spill" => i < next'[Home[b]]
      PROVE  slot'[SpillOrder[i]] = saved'[b].regs[SpillOrder[i]]
  <2>1. pc[Home[b]] = "set_spill" => i < next[Home[b]]
    BY <1>1, <1>3, <1>5
  <2> QED
    BY <1>1, <1>2, <1>3, <1>5, <2>1 DEF SlotOK
<1> QED
  BY <1>3, <1>4, <1>5 DEF SlotOK

(* What remains to be shown of a step of t.                                *)
LEMMA StepOfThread ==
  ASSUME IInv, NEW t \in Threads, OthersSame(t), TypeOK',
         StubOK(t)', LoadedOK(t)', SpilledOK(t)',
         \A b \in Buffers : Home[b] = t => BufferOK(b)',
         \A b \in Buffers : SlotOK(b)'
  PROVE  IInv'
<1>1. \A u \in Threads : StubOK(u)' /\ LoadedOK(u)' /\ SpilledOK(u)'
  BY OthersKept
<1>2. \A b \in Buffers : BufferOK(b)'
  BY OthersKept
<1> QED
  BY <1>1, <1>2 DEF IInv


-----------------------------------------------------------------------------
(* Initially every thread runs one function and no buffer was ever set.    *)
LEMMA InitIInv == Init => IInv
<1> SUFFICES ASSUME Init
             PROVE  IInv
  OBVIOUS
<1>1. TypeOK
  <2>1. 1 \in DOMAIN SpillOrder
    BY SpillFacts
  <2>2. Unregistered \in Seq(Nat) /\ << >> \in Seq(Nat)
    BY DEF Unregistered
  <2>3. << [regs |-> Zeros(Regs), link |-> Unregistered] >> \in Seq(Frame)
    BY <2>2, ValFacts DEF Frame
  <2>4. \A t \in Threads : Depth(t) \in 1 .. MaxDepth[t]
    <3> TAKE t \in Threads
    <3>1. Depth(t) = 1
      BY DEF Init, Depth
    <3>2. MaxDepth[t] \in Nat \ {0}
      BY ConstAssumption
    <3> QED
      BY <3>1, <3>2
  <2>5. regs \in [Threads -> [Regs -> Vals]]
    BY ValFacts DEF Init
  <2>6. frames \in [Threads -> Seq(Frame)]
    BY <2>3 DEF Init
  <2>7. buf \in [Buffers -> [regs : [Private -> Vals], depth : Nat,
                             link : Seq(Nat)]]
    BY <2>2, ValFacts DEF Init
  <2>8. saved \in [Buffers -> [regs : [Regs -> Vals], depth : Nat,
                               link : Seq(Nat)]]
    BY ValFacts DEF Init
  <2>9. /\ chain \in [Threads -> Seq(Nat)]
        /\ slot \in [Shared -> Vals]
        /\ pc \in [Threads -> Labels]
        /\ arg \in [Threads -> Buffers \union {NoBuffer}]
        /\ next \in [Threads -> DOMAIN SpillOrder]
        /\ rax \in [Threads -> {0, 1, 2}]
        /\ alone \in [Buffers -> BOOLEAN]
    BY <2>1, <2>2, ValFacts DEF Init, Labels
  <2> QED
    BY <2>4, <2>5, <2>6, <2>7, <2>8, <2>9 DEF TypeOK, Frame
<1>2. \A b \in Buffers : BufferOK(b)
  BY ValFacts DEF Init, BufferOK
<1>3. \A t \in Threads : StubOK(t) /\ LoadedOK(t) /\ SpilledOK(t)
  BY DEF Init, StubOK, LoadedOK, SpilledOK, JumpPCs
<1>4. \A b \in Buffers : SlotOK(b)
  BY DEF Init, SlotOK
<1> QED
  BY <1>1, <1>2, <1>3, <1>4 DEF IInv

(* A thread outside the stubs owes nothing but its counter.                *)
LEMMA RunningOK ==
  ASSUME NEW t \in Threads, pc'[t] = "run", next'[t] = 1
  PROVE  StubOK(t)' /\ LoadedOK(t)' /\ SpilledOK(t)'
BY DEF StubOK, LoadedOK, SpilledOK, JumpPCs

(* The program: what it does outside the stubs.                            *)
LEMMA ComputeStep ==
  ASSUME IInv, NEW t \in Threads, Compute(t)
  PROVE  IInv'
<1> USE DEF At
<1>1. PICK v \in Work[t] : regs' = [regs EXCEPT ![t] = [r \in Regs |-> v]]
  BY DEF Compute
<1>2. /\ pc[t] = "run"
      /\ UNCHANGED <<frames, chain, buf, slot,
                     pc, arg, next, rax, alone, saved>>
  BY DEF Compute, Stub
<1>3. TypeOK /\ next[t] = 1
  BY <1>2 DEF IInv, StubOK
<1>4. TypeOK'
  <2>1. [r \in Regs |-> v] \in [Regs -> Vals]
    BY ValFacts
  <2>2. regs' \in [Threads -> [Regs -> Vals]]
    BY <1>1, <1>3, <2>1 DEF TypeOK
  <2> QED
    BY <1>2, <1>3, <2>2 DEF TypeOK, Depth
<1>5. OthersSame(t)
  BY <1>1, <1>2, <1>3 DEF OthersSame, TypeOK
<1>6. \A b \in Buffers : BufferOK(b)'
  BY <1>2 DEF IInv, BufferOK, Depth
<1>7. SlotSame(t)
  BY <1>2 DEF SlotSame
<1>8. StubOK(t)' /\ LoadedOK(t)' /\ SpilledOK(t)'
  BY <1>2, <1>3, RunningOK
<1> QED
  BY <1>4, <1>5, <1>6, <1>7, <1>8, SlotKept, StepOfThread

LEMMA EnterStep ==
  ASSUME IInv, NEW t \in Threads, NEW registers \in BOOLEAN,
         Enter(t, registers)
  PROVE  IInv'
<1> DEFINE f == [regs |-> regs[t],
                 link |-> IF registers THEN chain[t] ELSE Unregistered]
<1>1. /\ pc[t] = "run" /\ Depth(t) < MaxDepth[t]
      /\ frames' = [frames EXCEPT ![t] = Append(frames[t], f)]
      /\ chain' = IF registers
                    THEN [chain EXCEPT ![t] = <<Depth(t) + 1>> \o chain[t]]
                    ELSE chain
      /\ UNCHANGED <<regs, buf, slot, pc, arg, next, rax, alone, saved>>
  BY DEF Enter, Stub, At
<1>2. TypeOK /\ next[t] = 1
  BY <1>1 DEF IInv, StubOK
<1>3. /\ regs[t] \in [Regs -> Vals] /\ frames[t] \in Seq(Frame)
      /\ chain[t] \in Seq(Nat) /\ Depth(t) \in Nat /\ MaxDepth[t] \in Nat
  BY <1>2, TypeFacts
<1>4. f \in Frame
  <2>1. Unregistered \in Seq(Nat)
    BY DEF Unregistered
  <2> QED
    BY <1>3, <2>1 DEF Frame
<1> HIDE DEF f
<1>5. /\ Append(frames[t], f) \in Seq(Frame)
      /\ Len(Append(frames[t], f)) = Depth(t) + 1
  BY <1>3, <1>4, AppendProperties DEF Depth
<1>6. frames'[t] = Append(frames[t], f) /\ Depth(t)' = Depth(t) + 1
  BY <1>1, <1>2, <1>5 DEF TypeOK, Depth
<1>7. frames' \in [Threads -> Seq(Frame)]
  BY <1>1, <1>2, <1>5 DEF TypeOK, Frame
<1>8. chain' \in [Threads -> Seq(Nat)]
  <2>1. <<Depth(t) + 1>> \in Seq(Nat)
    BY <1>3
  <2>2. <<Depth(t) + 1>> \o chain[t] \in Seq(Nat)
    BY <1>3, <2>1, ConcatProperties
  <2> QED
    BY <1>1, <1>2, <2>2 DEF TypeOK
<1>9. \A u \in Threads \ {t} : frames'[u] = frames[u] /\ chain'[u] = chain[u]
  BY <1>1, <1>2 DEF TypeOK
<1>10. TypeOK'
  <2>1. \A u \in Threads : Depth(u)' \in 1 .. MaxDepth[u]
    <3> TAKE u \in Threads
    <3>1. CASE u = t
      BY <1>1, <1>3, <1>6, <3>1
    <3>2. CASE u # t
      BY <1>2, <1>9, <3>2 DEF TypeOK, Depth
    <3> QED
      BY <3>1, <3>2
  <2> QED
    BY <1>1, <1>2, <1>7, <1>8, <2>1 DEF TypeOK, Frame
<1>11. OthersSame(t)
  BY <1>1, <1>9 DEF OthersSame
<1>12. \A b \in Buffers : Home[b] = t => BufferOK(b)'
  <2> SUFFICES ASSUME NEW b \in Buffers, Home[b] = t
               PROVE  BufferOK(b)'
    OBVIOUS
  <2>1. BufferOK(b) /\ saved[b].depth \in Nat
    BY <1>2, BufferTypes DEF IInv
  <2>2. saved[b].depth <= Depth(t) => saved[b].depth <= Depth(t)'
    BY <1>3, <1>6, <2>1
  <2>3. saved' = saved /\ buf' = buf
    BY <1>1
  <2> QED
    BY <2>1, <2>2, <2>3 DEF BufferOK
<1>13. SlotSame(t)
  BY <1>1 DEF SlotSame
<1>14. StubOK(t)' /\ LoadedOK(t)' /\ SpilledOK(t)'
  BY <1>1, <1>2, RunningOK
<1> QED
  BY <1>10, <1>11, <1>12, <1>13, <1>14, SlotKept, StepOfThread

LEMMA LeaveStep ==
  ASSUME IInv, NEW t \in Threads, Leave(t)
  PROVE  IInv'
<1> DEFINE f == frames[t][Depth(t)]
           d == Depth(t) - 1
<1>1. /\ pc[t] = "run" /\ Depth(t) > 1
      /\ regs' = [regs EXCEPT ![t] = f.regs]
      /\ chain' = IF f.link = Unregistered
                    THEN chain ELSE [chain EXCEPT ![t] = f.link]
      /\ frames' = [frames EXCEPT ![t] = SubSeq(frames[t], 1, d)]
      /\ Bury(t, d)
      /\ UNCHANGED <<buf, slot, pc, arg, next, rax, alone>>
  BY DEF Leave, Stub, At
<1>2. TypeOK /\ next[t] = 1
  BY <1>1 DEF IInv, StubOK
<1>3. /\ frames[t] \in Seq(Frame)
      /\ Depth(t) \in Nat /\ MaxDepth[t] \in Nat /\ Depth(t) <= MaxDepth[t]
  BY <1>2, TypeFacts
<1>4. d \in Nat /\ d >= 1 /\ d <= MaxDepth[t]
  BY <1>1, <1>3
<1>5. f \in Frame
  BY <1>1, <1>3 DEF Depth
<1>6. /\ SubSeq(frames[t], 1, d) \in Seq(Frame)
      /\ Len(SubSeq(frames[t], 1, d)) = d
  BY <1>1, <1>3, <1>4, SubSeqProperties DEF Depth
<1> HIDE DEF f
<1>7. regs' \in [Threads -> [Regs -> Vals]]
  BY <1>1, <1>2, <1>5 DEF TypeOK, Frame
<1>8. chain' \in [Threads -> Seq(Nat)]
  BY <1>1, <1>2, <1>5 DEF TypeOK, Frame
<1>9. frames' \in [Threads -> Seq(Frame)]
  BY <1>1, <1>2, <1>6 DEF TypeOK, Frame
<1>10. Depth(t)' = d
  BY <1>1, <1>2, <1>6 DEF TypeOK, Depth
<1> HIDE DEF d
<1>11. \A u \in Threads \ {t} :
         /\ regs'[u] = regs[u] /\ frames'[u] = frames[u]
         /\ chain'[u] = chain[u]
  BY <1>1, <1>2 DEF TypeOK
<1>12. /\ saved' \in [Buffers -> [regs : [Regs -> Vals], depth : Nat,
                                  link : Seq(Nat)]]
       /\ \A b \in Buffers :
            /\ saved'[b].depth # 0 => saved'[b] = saved[b]
            /\ Home[b] # t => saved'[b] = saved[b]
            /\ Home[b] = t => saved'[b].depth <= d
  BY <1>1, <1>2, <1>4, BuryFacts
<1>13. TypeOK'
  <2>1. \A u \in Threads : Depth(u)' \in 1 .. MaxDepth[u]
    <3> TAKE u \in Threads
    <3>1. CASE u = t
      BY <1>3, <1>4, <1>10, <3>1
    <3>2. CASE u # t
      BY <1>2, <1>11, <3>2 DEF TypeOK, Depth
    <3> QED
      BY <3>1, <3>2
  <2> QED
    BY <1>1, <1>2, <1>7, <1>8, <1>9, <1>12, <2>1 DEF TypeOK, Frame
<1>14. OthersSame(t)
  BY <1>1, <1>11, <1>12 DEF OthersSame
<1>15. \A b \in Buffers : Home[b] = t => BufferOK(b)'
  <2> SUFFICES ASSUME NEW b \in Buffers, Home[b] = t, saved'[b].depth # 0
               PROVE  BufferOK(b)'
    BY DEF BufferOK
  <2>1. BufferOK(b) /\ saved'[b] = saved[b] /\ buf'[b] = buf[b]
    BY <1>1, <1>12 DEF IInv
  <2>2. saved'[b].depth <= Depth(Home[b])'
    BY <1>10, <1>12
  <2> QED
    BY <2>1, <2>2 DEF BufferOK
<1>16. SlotSame(t)
  BY <1>1, <1>12 DEF SlotSame
<1>17. StubOK(t)' /\ LoadedOK(t)' /\ SpilledOK(t)'
  BY <1>1, <1>2, RunningOK
<1> QED
  BY <1>13, <1>14, <1>15, <1>16, <1>17, SlotKept, StepOfThread

LEMMA ResumeStep ==
  ASSUME IInv, NEW t \in Threads, Resume(t)
  PROVE  IInv'
<1>1. /\ pc[t] = "resumed"
      /\ pc' = [pc EXCEPT ![t] = "run"]
      /\ arg' = [arg EXCEPT ![t] = NoBuffer]
      /\ rax' = [rax EXCEPT ![t] = 0]
      /\ UNCHANGED <<regs, frames, chain, buf, slot, next, saved, alone>>
  BY DEF Resume, Return, Goto, At, history
<1>2. TypeOK /\ next[t] = 1
  BY <1>1 DEF IInv, StubOK
<1>3. TypeOK'
  BY <1>1, <1>2 DEF TypeOK, Labels, Depth
<1>4. pc'[t] = "run" /\ next'[t] = 1
  BY <1>1, <1>2 DEF TypeOK
<1>5. OthersSame(t)
  BY <1>1, <1>2 DEF OthersSame, TypeOK
<1>6. \A b \in Buffers : BufferOK(b)'
  BY <1>1 DEF IInv, BufferOK, Depth
<1>7. SlotSame(t)
  BY <1>1, <1>2 DEF SlotSame, TypeOK
<1>8. StubOK(t)' /\ LoadedOK(t)' /\ SpilledOK(t)'
  BY <1>4, RunningOK
<1> QED
  BY <1>3, <1>5, <1>6, <1>7, <1>8, SlotKept, StepOfThread


-----------------------------------------------------------------------------
(* _setjmp3: the buffer is set, and no other one is alone any more.        *)
LEMMA SetjmpStep ==
  ASSUME IInv, NEW t \in Threads, NEW b \in Buffers, Setjmp(t, b)
  PROVE  IInv'
<1> DEFINE kept == [regs |-> [r \in Private |-> regs[t][r]],
                    depth |-> Depth(t), link |-> chain[t]]
           had == [regs |-> regs[t], depth |-> Depth(t), link |-> chain[t]]
<1>1. /\ pc[t] = "run" /\ Home[b] = t
      /\ buf' = [buf EXCEPT ![b] = kept]
      /\ saved' = [saved EXCEPT ![b] = had]
      /\ alone' = [c \in Buffers |->
                     c = b /\ \A u \in Threads : pc[u] # "set_spill"]
      /\ arg' = [arg EXCEPT ![t] = b]
      /\ pc' = [pc EXCEPT ![t] = "set_spill"]
      /\ UNCHANGED <<regs, frames, chain, slot, next, rax>>
  BY DEF Setjmp, At, Goto
<1>2. TypeOK /\ next[t] = 1
  BY <1>1 DEF IInv, StubOK
<1>3. /\ regs[t] \in [Regs -> Vals] /\ chain[t] \in Seq(Nat)
      /\ Depth(t) \in Nat /\ Depth(t) >= 1
  BY <1>2, TypeFacts
<1>4. kept \in [regs : [Private -> Vals], depth : Nat, link : Seq(Nat)]
  <2>1. [r \in Private |-> regs[t][r]] \in [Private -> Vals]
    BY <1>3 DEF Private
  <2> QED
    BY <1>3, <2>1
<1>5. had \in [regs : [Regs -> Vals], depth : Nat, link : Seq(Nat)]
  BY <1>3
<1>6. /\ kept.depth = Depth(t) /\ had.depth = Depth(t)
      /\ kept.link = chain[t] /\ had.link = chain[t]
      /\ had.regs = regs[t]
      /\ \A r \in Private : kept.regs[r] = regs[t][r]
  OBVIOUS
<1> HIDE DEF kept, had
<1>7. /\ pc'[t] = "set_spill" /\ arg'[t] = b
      /\ buf'[b] = kept /\ saved'[b] = had
      /\ \A c \in Buffers \ {b} : buf'[c] = buf[c] /\ saved'[c] = saved[c]
      /\ \A u \in Threads \ {t} : pc'[u] = pc[u] /\ arg'[u] = arg[u]
  BY <1>1, <1>2 DEF TypeOK
<1>8. \A c \in Buffers :
        alone'[c] = TRUE
          => c = b /\ \A u \in Threads : pc[u] # "set_spill"
  BY <1>1
<1>9. TypeOK'
  <2>1. pc' \in [Threads -> Labels]
    BY <1>1, <1>2 DEF TypeOK, Labels
  <2>2. arg' \in [Threads -> Buffers \union {NoBuffer}]
    BY <1>1, <1>2 DEF TypeOK
  <2>3. alone' \in [Buffers -> BOOLEAN]
    BY <1>1
  <2>4. buf' \in [Buffers -> [regs : [Private -> Vals], depth : Nat,
                              link : Seq(Nat)]]
    BY <1>1, <1>2, <1>4 DEF TypeOK
  <2>5. saved' \in [Buffers -> [regs : [Regs -> Vals], depth : Nat,
                                link : Seq(Nat)]]
    BY <1>1, <1>2, <1>5 DEF TypeOK
  <2> QED
    BY <1>1, <1>2, <2>1, <2>2, <2>3, <2>4, <2>5 DEF TypeOK, Depth
<1>10. OthersSame(t)
  BY <1>1, <1>7, <1>8 DEF OthersSame
<1>11. \A c \in Buffers : Home[c] = t => BufferOK(c)'
  <2> SUFFICES ASSUME NEW c \in Buffers, Home[c] = t
               PROVE  BufferOK(c)'
    OBVIOUS
  <2>1. CASE c = b
    <3>1. Depth(t)' = Depth(t)
      BY <1>1 DEF Depth
    <3> QED
      BY <1>3, <1>6, <1>7, <2>1, <3>1 DEF BufferOK
  <2>2. CASE c # b
    <3>1. BufferOK(c) /\ buf'[c] = buf[c] /\ saved'[c] = saved[c]
      BY <1>7, <2>2 DEF IInv
    <3> QED
      BY <1>1, <3>1 DEF BufferOK, Depth
  <2> QED
    BY <2>1, <2>2
<1>12. \A c \in Buffers : SlotOK(c)'
  <2> SUFFICES ASSUME NEW c \in Buffers, alone'[c] = TRUE
               PROVE  SlotOK(c)'
    BY DEF SlotOK
  <2>1. c = b /\ \A u \in Threads : pc[u] # "set_spill"
    BY <1>8
  <2>2. \A u \in Threads : pc'[u] = "set_spill" => arg'[u] = c
    BY <1>7, <2>1
  <2>3. pc'[Home[c]] = "set_spill" /\ next'[Home[c]] = 1
    BY <1>1, <1>2, <1>7, <2>1
  <2>4. \A i \in DOMAIN SpillOrder : ~(i < 1)
    BY SpillFacts
  <2> QED
    BY <2>2, <2>3, <2>4 DEF SlotOK
<1>13. StubOK(t)'
  BY <1>1, <1>3, <1>6, <1>7 DEF StubOK, JumpPCs
<1>14. LoadedOK(t)'
  BY <1>1, <1>6, <1>7 DEF LoadedOK, JumpPCs
<1>15. SpilledOK(t)'
  BY <1>7 DEF SpilledOK
<1> QED
  BY <1>9, <1>10, <1>11, <1>12, <1>13, <1>14, <1>15, StepOfThread

LEMMA SpillStoreStep ==
  ASSUME IInv, NEW t \in Threads, SpillStore(t)
  PROVE  IInv'
<1> DEFINE b == arg[t]
<1>1. /\ pc[t] = "set_spill"
      /\ slot' = [slot EXCEPT ![SpillOrder[next[t]]] =
                                 regs[t][SpillOrder[next[t]]]]
      /\ next' = [next EXCEPT ![t] = IF next[t] = 3 THEN 1 ELSE next[t] + 1]
      /\ IF next[t] = 3
           THEN /\ pc' = [pc EXCEPT ![t] = "run"]
                /\ arg' = [arg EXCEPT ![t] = NoBuffer]
           ELSE UNCHANGED <<pc, arg>>
      /\ UNCHANGED <<regs, frames, chain, buf, rax, saved, alone>>
  BY SpillFacts DEF SpillStore, At, Advance, Last, Return, Goto, history
<1>2. /\ TypeOK /\ StubOK(t) /\ LoadedOK(t)
      /\ b \in Buffers /\ Home[b] = t
      /\ saved[b].depth # 0 /\ regs[t] = saved[b].regs
  BY <1>1 DEF IInv, StubOK, LoadedOK
<1>3. next[t] \in 1 .. 3 /\ regs[t] \in [Regs -> Vals]
  BY <1>2, TypeFacts
<1>4. SpillOrder[next[t]] \in Shared /\ SpillOrder[next[t]] \in Regs
  BY <1>3, SpillFacts DEF Regs
<1>5. next'[t] = IF next[t] = 3 THEN 1 ELSE next[t] + 1
  BY <1>1, <1>2 DEF TypeOK
<1>6. /\ next[t] = 3 => pc'[t] = "run"
      /\ next[t] # 3 => pc' = pc /\ arg' = arg
      /\ \A u \in Threads \ {t} :
           pc'[u] = pc[u] /\ arg'[u] = arg[u] /\ next'[u] = next[u]
  BY <1>1, <1>2 DEF TypeOK
<1>7. TypeOK'
  <2>1. slot' \in [Shared -> Vals]
    BY <1>1, <1>2, <1>3, <1>4 DEF TypeOK
  <2>2. next' \in [Threads -> DOMAIN SpillOrder]
    <3>1. (IF next[t] = 3 THEN 1 ELSE next[t] + 1) \in DOMAIN SpillOrder
      BY <1>3, SpillFacts
    <3> QED
      BY <1>1, <1>2, <3>1 DEF TypeOK
  <2>3. pc' \in [Threads -> Labels]
    <3>1. \/ pc' = pc
          \/ pc' = [pc EXCEPT ![t] = "run"]
      BY <1>1
    <3>2. pc \in [Threads -> Labels]
      BY <1>2 DEF TypeOK
    <3> QED
      BY <3>1, <3>2 DEF Labels
  <2>4. arg' \in [Threads -> Buffers \union {NoBuffer}]
    <3>1. arg' = arg \/ arg' = [arg EXCEPT ![t] = NoBuffer]
      BY <1>1
    <3>2. arg \in [Threads -> Buffers \union {NoBuffer}]
      BY <1>2 DEF TypeOK
    <3> QED
      BY <3>1, <3>2
  <2> QED
    BY <1>1, <1>2, <2>1, <2>2, <2>3, <2>4 DEF TypeOK, Depth
<1>8. OthersSame(t)
  BY <1>1, <1>6 DEF OthersSame
<1>9. \A c \in Buffers : BufferOK(c)'
  BY <1>1 DEF IInv, BufferOK, Depth
<1>10. \A c \in Buffers : SlotOK(c)'
  <2> SUFFICES ASSUME NEW c \in Buffers, alone[c] = TRUE
               PROVE  SlotOK(c)'
    BY <1>1 DEF SlotOK
  <2>1. SlotOK(c)
    BY DEF IInv
  <2>2. c = b /\ \A u \in Threads : pc[u] = "set_spill" => arg[u] = b
    BY <1>1, <2>1 DEF SlotOK
  <2>3. \A u \in Threads : pc'[u] = "set_spill" => arg'[u] = c
    BY <1>3, <1>6, <2>2
  <2>4. ASSUME NEW i \in DOMAIN SpillOrder,
               pc'[t] = "set_spill" => i < next'[t]
        PROVE  slot'[SpillOrder[i]] = saved[b].regs[SpillOrder[i]]
    <3>1. i \in 1 .. 3 /\ SpillOrder[i] \in Shared
      BY SpillFacts
    <3>2. i <= next[t]
      BY <1>1, <1>3, <1>5, <1>6, <2>4, <3>1
    <3>3. CASE i = next[t]
      BY <1>1, <1>2, <1>4, <3>3 DEF TypeOK
    <3>4. CASE i < next[t]
      <4>1. slot[SpillOrder[i]] = saved[b].regs[SpillOrder[i]]
        BY <1>2, <2>1, <2>2, <3>4 DEF SlotOK
      <4>2. CASE SpillOrder[i] = SpillOrder[next[t]]
        BY <1>1, <1>2, <1>4, <4>2 DEF TypeOK
      <4>3. CASE SpillOrder[i] # SpillOrder[next[t]]
        BY <1>1, <1>2, <3>1, <4>1, <4>3 DEF TypeOK
      <4> QED
        BY <4>2, <4>3
    <3> QED
      BY <1>3, <3>1, <3>2, <3>3, <3>4
  <2>5. Home[c] = t /\ saved' = saved
    BY <1>1, <1>2, <2>2
  <2> QED
    BY <2>2, <2>3, <2>4, <2>5 DEF SlotOK
<1>11. StubOK(t)' /\ LoadedOK(t)' /\ SpilledOK(t)'
  <2>1. CASE next[t] = 3
    BY <1>5, <1>6, <2>1, RunningOK
  <2>2. CASE next[t] # 3
    <3>1. pc' = pc /\ arg' = arg /\ saved' = saved /\ regs' = regs
      BY <1>1, <1>6, <2>2
    <3> QED
      BY <1>1, <1>2, <3>1 DEF StubOK, LoadedOK, SpilledOK, JumpPCs
  <2> QED
    BY <2>1, <2>2
<1> QED
  BY <1>7, <1>8, <1>9, <1>10, <1>11, StepOfThread

(* _seh_longjmp_unwind changes the list at gs:[0] only.                    *)
LEMMA UnwindStep ==
  ASSUME IInv, NEW t \in Threads, NEW b \in Buffers, Unwind(t, b)
  PROVE  IInv'
<1>1. /\ pc[t] = "run" /\ Home[b] = t /\ saved[b].depth # 0
      /\ arg' = [arg EXCEPT ![t] = b]
      /\ \/ /\ chain' = [chain EXCEPT ![t] = buf[b].link]
            /\ pc' = [pc EXCEPT ![t] = "unwound"]
         \/ /\ chain' = chain
            /\ pc' = [pc EXCEPT ![t] = "astray"]
      /\ UNCHANGED <<regs, frames, buf, slot, next, rax, saved, alone>>
  BY DEF Unwind, At, Goto, history
<1>2. TypeOK /\ next[t] = 1
  BY <1>1 DEF IInv, StubOK
<1>3. arg'[t] = b /\ pc'[t] \in {"unwound", "astray"}
  BY <1>1, <1>2 DEF TypeOK
<1>4. TypeOK'
  <2>1. chain' \in [Threads -> Seq(Nat)]
    BY <1>1, <1>2, BufferTypes DEF TypeOK
  <2>2. pc' \in [Threads -> Labels]
    <3>1. \/ pc' = [pc EXCEPT ![t] = "unwound"]
          \/ pc' = [pc EXCEPT ![t] = "astray"]
      BY <1>1
    <3>2. pc \in [Threads -> Labels]
      BY <1>2 DEF TypeOK
    <3> QED
      BY <3>1, <3>2 DEF Labels
  <2> QED
    BY <1>1, <1>2, <2>1, <2>2 DEF TypeOK, Depth
<1>5. OthersSame(t)
  BY <1>1, <1>2 DEF OthersSame, TypeOK
<1>6. \A c \in Buffers : BufferOK(c)'
  BY <1>1 DEF IInv, BufferOK, Depth
<1>7. SlotSame(t)
  BY <1>1, <1>2 DEF SlotSame, TypeOK
<1>8. StubOK(t)' /\ LoadedOK(t)' /\ SpilledOK(t)'
  BY <1>1, <1>2, <1>3 DEF StubOK, LoadedOK, SpilledOK, JumpPCs
<1> QED
  BY <1>4, <1>5, <1>6, <1>7, <1>8, SlotKept, StepOfThread

-----------------------------------------------------------------------------
(* longjmp: the registers that the buffer holds, ...                       *)
LEMMA LongjmpStep ==
  ASSUME IInv, NEW t \in Threads, NEW b \in Buffers, NEW v \in {0, 2},
         Longjmp(t, b, v)
  PROVE  IInv'
<1> DEFINE f == [r \in Regs |-> IF r \in Private THEN buf[b].regs[r]
                                                 ELSE regs[t][r]]
<1>1. /\ Home[b] = t
      /\ \/ pc[t] = "run" /\ (saved[b].depth # 0 \/ buf[b].depth = 0)
         \/ pc[t] = "unwound" /\ arg[t] = b
      /\ regs' = [regs EXCEPT ![t] = f]
      /\ rax' = [rax EXCEPT ![t] = v]
      /\ arg' = [arg EXCEPT ![t] = b]
      /\ pc' = [pc EXCEPT ![t] = "jmp_spill"]
      /\ UNCHANGED <<frames, chain, buf, slot, next, saved, alone>>
  BY DEF Longjmp, At, Goto, history
<1>2. TypeOK /\ next[t] = 1 /\ (saved[b].depth # 0 \/ buf[b].depth = 0)
  BY <1>1 DEF IInv, StubOK
<1>3. f \in [Regs -> Vals] /\ \A r \in Private : f[r] = buf[b].regs[r]
  BY <1>2, TypeFacts, BufferTypes DEF Private
<1> HIDE DEF f
<1>4. regs'[t] = f /\ pc'[t] = "jmp_spill" /\ arg'[t] = b
  BY <1>1, <1>2 DEF TypeOK
<1>5. TypeOK'
  <2>1. regs' \in [Threads -> [Regs -> Vals]]
    BY <1>1, <1>2, <1>3 DEF TypeOK
  <2>2. pc' \in [Threads -> Labels]
    BY <1>1, <1>2 DEF TypeOK, Labels
  <2>3. rax' \in [Threads -> {0, 1, 2}]
    BY <1>1, <1>2 DEF TypeOK
  <2> QED
    BY <1>1, <1>2, <2>1, <2>2, <2>3 DEF TypeOK, Depth
<1>6. OthersSame(t)
  BY <1>1, <1>2 DEF OthersSame, TypeOK
<1>7. \A c \in Buffers : BufferOK(c)'
  BY <1>1 DEF IInv, BufferOK, Depth
<1>8. SlotSame(t)
  BY <1>1, <1>2 DEF SlotSame, TypeOK
<1>9. StubOK(t)'
  BY <1>1, <1>2, <1>4 DEF StubOK, JumpPCs
<1>10. LoadedOK(t)'
  BY <1>1, <1>3, <1>4 DEF LoadedOK, JumpPCs
<1>11. SpilledOK(t)'
  <2>1. next'[t] = 1 /\ \A i \in DOMAIN SpillOrder : ~(i < 1)
    BY <1>1, <1>2, SpillFacts
  <2> QED
    BY <1>4, <2>1 DEF SpilledOK
<1> QED
  BY <1>5, <1>6, <1>7, <1>8, <1>9, <1>10, <1>11, SlotKept, StepOfThread

(* ... the three of the slot, one by one, ...                              *)
LEMMA SpillLoadStep ==
  ASSUME IInv, NEW t \in Threads, SpillLoad(t)
  PROVE  IInv'
<1> DEFINE b == arg[t]
           q == SpillOrder[next[t]]
<1>1. /\ pc[t] = "jmp_spill"
      /\ regs' = [regs EXCEPT ![t] = [regs[t] EXCEPT ![q] = slot[q]]]
      /\ next' = [next EXCEPT ![t] = IF next[t] = 3 THEN 1 ELSE next[t] + 1]
      /\ IF next[t] = 3
           THEN pc' = [pc EXCEPT ![t] = "jmp_last"] ELSE pc' = pc
      /\ UNCHANGED <<frames, chain, buf, slot, arg, rax, saved, alone>>
  BY SpillFacts DEF SpillLoad, At, Advance, Last, Goto, history
<1>2. /\ TypeOK /\ StubOK(t) /\ LoadedOK(t) /\ SpilledOK(t)
      /\ b \in Buffers /\ Home[b] = t
  BY <1>1 DEF IInv, StubOK, JumpPCs
<1>3. next[t] \in 1 .. 3 /\ regs[t] \in [Regs -> Vals]
  BY <1>2, TypeFacts
<1>4. q \in Shared /\ q \in Regs /\ q \notin Private
  BY <1>3, SpillFacts DEF Regs
<1>5. next'[t] = IF next[t] = 3 THEN 1 ELSE next[t] + 1
  BY <1>1, <1>2 DEF TypeOK
<1>6. /\ next[t] = 3 => pc'[t] = "jmp_last"
      /\ next[t] # 3 => pc'[t] = "jmp_spill"
      /\ \A u \in Threads \ {t} : pc'[u] = pc[u]
  BY <1>1, <1>2 DEF TypeOK
<1>7. /\ regs'[t][q] = slot[q]
      /\ \A r \in Regs \ {q} : regs'[t][r] = regs[t][r]
  BY <1>1, <1>2, <1>3, <1>4 DEF TypeOK
<1>8. TypeOK'
  <2>1. slot[q] \in Vals
    BY <1>2, <1>4 DEF TypeOK
  <2>2. regs' \in [Threads -> [Regs -> Vals]]
    <3>1. [regs[t] EXCEPT ![q] = slot[q]] \in [Regs -> Vals]
      BY <1>3, <2>1
    <3>2. regs \in [Threads -> [Regs -> Vals]]
      BY <1>2 DEF TypeOK
    <3> QED
      BY <1>1, <3>1, <3>2
  <2>3. next' \in [Threads -> DOMAIN SpillOrder]
    <3>1. (IF next[t] = 3 THEN 1 ELSE next[t] + 1) \in DOMAIN SpillOrder
      BY <1>3, SpillFacts
    <3> QED
      BY <1>1, <1>2, <3>1 DEF TypeOK
  <2>4. pc' \in [Threads -> Labels]
    <3>1. \/ pc' = pc
          \/ pc' = [pc EXCEPT ![t] = "jmp_last"]
      BY <1>1
    <3>2. pc \in [Threads -> Labels]
      BY <1>2 DEF TypeOK
    <3> QED
      BY <3>1, <3>2 DEF Labels
  <2> QED
    BY <1>1, <1>2, <2>2, <2>3, <2>4 DEF TypeOK, Depth
<1>9. OthersSame(t)
  BY <1>1, <1>2 DEF OthersSame, TypeOK
<1>10. \A c \in Buffers : BufferOK(c)'
  BY <1>1 DEF IInv, BufferOK, Depth
<1>11. SlotSame(t)
  BY <1>1, <1>2 DEF SlotSame, TypeOK
<1>12. StubOK(t)'
  BY <1>1, <1>2, <1>3, <1>5, <1>6 DEF StubOK, JumpPCs
<1>13. LoadedOK(t)'
  <2>1. \A r \in Private : regs'[t][r] = buf[b].regs[r]
    BY <1>1, <1>2, <1>4, <1>7 DEF LoadedOK, JumpPCs, Private
  <2> QED
    BY <1>1, <1>3, <1>6, <2>1 DEF LoadedOK, JumpPCs
<1>14. SpilledOK(t)'
  <2> SUFFICES ASSUME alone[b] = TRUE, saved[b].depth # 0
               PROVE  SpilledOK(t)'
    BY <1>1 DEF SpilledOK
  <2>1. \A i \in 1 .. 3 :
          i < next[t] => regs[t][SpillOrder[i]] = saved[b].regs[SpillOrder[i]]
    BY <1>1, <1>2, SpillFacts DEF SpilledOK
  <2>2. slot[q] = saved[b].regs[q]
    <3>1. SlotOK(b)
      BY <1>2 DEF IInv
    <3> QED
      BY <1>1, <1>2, <1>3, <3>1, SpillFacts DEF SlotOK
  <2>3. \A i \in 1 .. 3 :
          i <= next[t]
            => regs'[t][SpillOrder[i]] = saved[b].regs[SpillOrder[i]]
    <3> SUFFICES ASSUME NEW i \in 1 .. 3, i <= next[t]
                 PROVE  regs'[t][SpillOrder[i]] = saved[b].regs[SpillOrder[i]]
      OBVIOUS
    <3>1. SpillOrder[i] \in Regs
      BY SpillFacts DEF Shared, Regs
    <3>2. CASE SpillOrder[i] = q
      BY <1>7, <2>2, <3>2
    <3>3. CASE SpillOrder[i] # q
      <4>1. i < next[t]
        BY <1>3, <3>3
      <4> QED
        BY <1>7, <2>1, <3>1, <3>3, <4>1
    <3> QED
      BY <3>2, <3>3
  <2>4. saved' = saved /\ arg' = arg
    BY <1>1
  <2>5. CASE next[t] = 3
    <3>1. \A r \in Shared : regs'[t][r] = saved[b].regs[r]
      BY <2>3, <2>5, SpillFacts
    <3> QED
      BY <1>6, <2>4, <2>5, <3>1 DEF SpilledOK
  <2>6. CASE next[t] # 3
    <3>1. \A i \in DOMAIN SpillOrder : i < next'[t] => i <= next[t]
      BY <1>3, <1>5, <2>6, SpillFacts
    <3> QED
      BY <1>6, <2>3, <2>4, <2>6, <3>1, SpillFacts DEF SpilledOK
  <2> QED
    BY <2>5, <2>6
<1> QED
  BY <1>8, <1>9, <1>10, <1>11, <1>12, <1>13, <1>14, SlotKept, StepOfThread


(* ... and gs:[0], the depth of the stack and the result.                  *)
LEMMA JumpStep ==
  ASSUME IInv, NEW t \in Threads, Jump(t)
  PROVE  IInv'
<1> DEFINE b == arg[t]
           d == buf[b].depth
<1>1. /\ pc[t] = "jmp_last"
      /\ chain' = [chain EXCEPT ![t] = buf[b].link]
      /\ UNCHANGED <<regs, buf, slot, arg, next, alone>>
  BY DEF Jump, At
<1>2. /\ TypeOK /\ StubOK(t) /\ LoadedOK(t) /\ SpilledOK(t)
      /\ b \in Buffers /\ Home[b] = t
      /\ saved[b].depth # 0 \/ d = 0
      /\ next[t] = 1
  BY <1>1 DEF IInv, StubOK, JumpPCs
<1>3. /\ frames[t] \in Seq(Frame) /\ regs[t] \in [Regs -> Vals]
      /\ Depth(t) \in Nat /\ MaxDepth[t] \in Nat /\ Depth(t) <= MaxDepth[t]
      /\ rax[t] \in {0, 1, 2}
      /\ d \in Nat /\ buf[b].link \in Seq(Nat) /\ saved[b].depth \in Nat
  BY <1>2, TypeFacts, BufferTypes
<1>4. BufferOK(b)
  BY <1>2 DEF IInv
<1>5. chain' \in [Threads -> Seq(Nat)] /\ chain'[t] = buf[b].link
  BY <1>1, <1>2, <1>3 DEF TypeOK
<1>6. CASE d = 0
  <2>1. pc' = [pc EXCEPT ![t] = "trap"] /\ UNCHANGED <<frames, rax, saved>>
    BY <1>6 DEF Jump, Goto
  <2>2. pc'[t] = "trap"
    BY <1>2, <2>1 DEF TypeOK
  <2>3. TypeOK'
    BY <1>1, <1>2, <1>5, <2>1 DEF TypeOK, Labels, Depth
  <2>4. OthersSame(t)
    BY <1>1, <1>2, <2>1 DEF OthersSame, TypeOK
  <2>5. \A c \in Buffers : BufferOK(c)'
    BY <1>1, <2>1 DEF IInv, BufferOK, Depth
  <2>6. SlotSame(t)
    BY <1>1, <1>2, <2>1 DEF SlotSame, TypeOK
  <2>7. StubOK(t)' /\ LoadedOK(t)' /\ SpilledOK(t)'
    BY <1>1, <1>2, <2>2 DEF StubOK, LoadedOK, SpilledOK, JumpPCs
  <2> QED
    BY <2>3, <2>4, <2>5, <2>6, <2>7, SlotKept, StepOfThread
<1>7. CASE d # 0
  <2>1. /\ rax' = [rax EXCEPT ![t] = IF rax[t] = 0 THEN 1 ELSE rax[t]]
        /\ frames' = [frames EXCEPT ![t] = SubSeq(frames[t], 1, d)]
        /\ Bury(t, d)
        /\ pc' = [pc EXCEPT ![t] = "resumed"]
    BY <1>7 DEF Jump, Goto
  <2>2. /\ saved[b].depth = d /\ saved[b].link = buf[b].link
        /\ \A r \in Private : buf[b].regs[r] = saved[b].regs[r]
        /\ d <= Depth(t) /\ d >= 1
    BY <1>2, <1>3, <1>4, <1>7 DEF BufferOK
  <2>3. /\ SubSeq(frames[t], 1, d) \in Seq(Frame)
        /\ Len(SubSeq(frames[t], 1, d)) = d
    BY <1>3, <2>2, SubSeqProperties DEF Depth
  <2>4. Depth(t)' = d
    BY <1>2, <2>1, <2>3 DEF TypeOK, Depth
  <2>5. frames' \in [Threads -> Seq(Frame)]
    BY <1>2, <2>1, <2>3 DEF TypeOK, Frame
  <2>6. /\ pc'[t] = "resumed"
        /\ rax'[t] \in {1, 2}
        /\ \A u \in Threads \ {t} :
             /\ pc'[u] = pc[u] /\ rax'[u] = rax[u]
             /\ frames'[u] = frames[u] /\ chain'[u] = chain[u]
    BY <1>1, <1>2, <1>3, <2>1 DEF TypeOK
  <2>7. /\ saved' \in [Buffers -> [regs : [Regs -> Vals], depth : Nat,
                                   link : Seq(Nat)]]
        /\ \A c \in Buffers :
             /\ saved'[c].depth # 0 => saved'[c] = saved[c]
             /\ Home[c] # t => saved'[c] = saved[c]
             /\ saved[c].depth <= d => saved'[c] = saved[c]
             /\ Home[c] = t => saved'[c].depth <= d
    BY <1>2, <1>3, <2>1, BuryFacts
  <2>8. saved'[b] = saved[b]
    BY <1>2, <1>3, <2>2, <2>7
  <2> HIDE DEF d
  <2>9. TypeOK'
    <3>1. \A u \in Threads : Depth(u)' \in 1 .. MaxDepth[u]
      <4> TAKE u \in Threads
      <4>1. CASE u = t
        BY <1>3, <2>2, <2>4, <4>1
      <4>2. CASE u # t
        BY <1>2, <2>6, <4>2 DEF TypeOK, Depth
      <4> QED
        BY <4>1, <4>2
    <3>2. pc' \in [Threads -> Labels]
      BY <1>2, <2>1 DEF TypeOK, Labels
    <3>3. rax' \in [Threads -> {0, 1, 2}]
      BY <1>2, <1>3, <2>1 DEF TypeOK
    <3> QED
      BY <1>1, <1>2, <1>5, <2>5, <2>7, <3>1, <3>2, <3>3 DEF TypeOK, Frame
  <2>10. OthersSame(t)
    BY <1>1, <2>6, <2>7 DEF OthersSame
  <2>11. \A c \in Buffers : Home[c] = t => BufferOK(c)'
    <3> SUFFICES ASSUME NEW c \in Buffers, Home[c] = t, saved'[c].depth # 0
                 PROVE  BufferOK(c)'
      BY DEF BufferOK
    <3>1. BufferOK(c) /\ saved'[c] = saved[c] /\ buf'[c] = buf[c]
      BY <1>1, <2>7 DEF IInv
    <3>2. saved'[c].depth <= Depth(Home[c])'
      BY <2>4, <2>7
    <3> QED
      BY <3>1, <3>2 DEF BufferOK
  <2>12. SlotSame(t)
    BY <1>1, <2>6, <2>7 DEF SlotSame
  <2>13. StubOK(t)'
    BY <1>1, <1>2, <1>3, <2>2, <2>6, <2>8 DEF StubOK, JumpPCs
  <2>14. LoadedOK(t)'
    <3>1. \A r \in Private : regs[t][r] = saved[b].regs[r]
      BY <1>1, <1>2, <2>2 DEF LoadedOK, JumpPCs
    <3> QED
      BY <1>1, <1>5, <2>2, <2>4, <2>6, <2>8, <3>1 DEF LoadedOK, JumpPCs
  <2>15. SpilledOK(t)'
    BY <1>1, <1>2, <2>6, <2>8 DEF SpilledOK
  <2> QED
    BY <2>9, <2>10, <2>11, <2>12, <2>13, <2>14, <2>15,
       SlotKept, StepOfThread
<1> QED
  BY <1>6, <1>7

-----------------------------------------------------------------------------
(* Every step keeps the invariant.                                         *)
LEMMA NextIInv == IInv /\ [Next]_vars => IInv'
<1> SUFFICES ASSUME IInv, [Next]_vars
             PROVE  IInv'
  OBVIOUS
<1>1. CASE UNCHANGED vars
  <2>1. /\ UNCHANGED <<regs, frames, chain, buf, slot, pc>>
        /\ UNCHANGED <<arg, next, rax, saved, alone>>
    BY <1>1 DEF vars
  <2>2. TypeOK'
    BY <2>1 DEF IInv, TypeOK, Depth
  <2>3. \A b \in Buffers : BufferOK(b)'
    BY <2>1 DEF IInv, BufferOK, Depth
  <2>4. \A t \in Threads : StubOK(t)'
    BY <2>1 DEF IInv, StubOK
  <2>5. \A t \in Threads : LoadedOK(t)'
    BY <2>1 DEF IInv, LoadedOK, Depth
  <2>6. \A b \in Buffers : SlotOK(b)'
    BY <2>1 DEF IInv, SlotOK
  <2>7. \A t \in Threads : SpilledOK(t)'
    BY <2>1 DEF IInv, SpilledOK
  <2> QED
    BY <2>2, <2>3, <2>4, <2>5, <2>6, <2>7 DEF IInv
<1>2. ASSUME NEW t \in Threads, Program(t)
      PROVE  IInv'
  BY <1>2, ComputeStep, EnterStep, LeaveStep, ResumeStep DEF Program
<1>3. ASSUME NEW t \in Threads, Runtime(t)
      PROVE  IInv'
  BY <1>3, SetjmpStep, SpillStoreStep, UnwindStep, LongjmpStep,
     SpillLoadStep, JumpStep DEF Runtime
<1> QED
  BY <1>1, <1>2, <1>3 DEF Next

LEMMA Invariance == Spec => []IInv
BY InitIInv, NextIInv, PTL DEF Spec

(* Every variable keeps its type, and no function nests deeper than the    *)
(* bound, whatever the threads and buffers (w2kseh64.py 87-204).           *)
THEOREM Typing == Spec => []TypeOK
<1>1. IInv => TypeOK
  BY DEF IInv
<1> QED
  BY <1>1, Invariance, PTL

(* Every longjmp comes back to the frame its setjmp was called from, with  *)
(* its gs:[0], the registers of the buffer and r13 (w2kseh64.py 87-169).   *)
THEOREM FramesRestored == Spec => []FrameRestored
<1>1. IInv => FrameRestored
  BY SpillFacts DEF IInv, LoadedOK, FrameRestored
<1> QED
  BY <1>1, Invariance, PTL

(* Every longjmp restores r12, r14 and r15 too when no other setjmp, of    *)
(* any thread, began since the one it returns to and none was under way    *)
(* then (w2kseh64.py 115-119 and 142-145).                                 *)
THEOREM AloneFaithful == Spec => []AloneRestored
<1>1. ASSUME IInv, NEW t \in Threads, pc[t] = "resumed", alone[arg[t]],
             NEW r \in Regs
      PROVE  regs[t][r] = saved[arg[t]].regs[r]
  <2>1. /\ TypeOK /\ StubOK(t) /\ LoadedOK(t) /\ SpilledOK(t)
        /\ arg[t] \in Buffers /\ saved[arg[t]].depth # 0
    BY <1>1 DEF IInv, StubOK
  <2>2. alone[arg[t]] = TRUE
    BY <1>1, <2>1, BufferTypes
  <2>3. CASE r \in Private
    BY <1>1, <2>1, <2>3 DEF LoadedOK
  <2>4. CASE r \in Shared
    BY <1>1, <2>1, <2>2, <2>4 DEF SpilledOK
  <2> QED
    BY <1>1, <2>3, <2>4 DEF Private
<1>2. IInv => AloneRestored
  BY <1>1 DEF AloneRestored
<1> QED
  BY <1>2, Invariance, PTL

-----------------------------------------------------------------------------
(* The list at gs:[0].                                                     *)

Rest(C, k) == SubSeq(C, k, Len(C))

(* C lists the registered frames of t, innermost first, ...                *)
Lists(C, t) ==
  /\ \A i \in 1 .. Len(C) : C[i] \in Registered(t)
  /\ \A d \in Registered(t) : \E i \in 1 .. Len(C) : C[i] = d
  /\ \A i, j \in 1 .. Len(C) : i < j => C[i] > C[j]

(* ... every one of them will restore the rest of C, ...                   *)
Linked(C, t) ==
  \A i \in 1 .. Len(C) : frames[t][C[i]].link = Rest(C, i + 1)

(* ... and so does every live buffer: the rest that begins at k has just   *)
(* the frames that were there when it was set.                             *)
Holds(C, b) ==
  saved[b].depth # 0 =>
    \E k \in 1 .. Len(C) + 1 :
      /\ saved[b].link = Rest(C, k)
      /\ \A i \in 1 .. Len(C) : C[i] <= saved[b].depth <=> i >= k

Full(C, t) ==
  /\ Lists(C, t)
  /\ Linked(C, t)
  /\ \A b \in Buffers : Home[b] = t => Holds(C, b)

(* gs:[0] is that list, except between an unwinding and the end of the     *)
(* longjmp after it, when it is ahead of the stack.                        *)
Settled == {"run", "set_spill", "resumed"}

ChainOK(t) ==
  /\ pc[t] # "astray"
  /\ \E C \in Seq(Nat) :
       Full(C, t) /\ (pc[t] \in Settled => chain[t] = C)

CInv == \A t \in Threads : ChainOK(t)

-----------------------------------------------------------------------------
(* The rest of a list, and the rest of that.                               *)
LEMMA RestFacts ==
  ASSUME NEW C \in Seq(Nat), NEW k \in 1 .. Len(C) + 1
  PROVE  /\ Rest(C, k) \in Seq(Nat)
         /\ Len(Rest(C, k)) = Len(C) - k + 1
         /\ \A i \in 1 .. Len(C) - k + 1 : Rest(C, k)[i] = C[i + k - 1]
<1>1. k \in Int /\ Len(C) \in Nat /\ k >= 1 /\ k <= Len(C) + 1
  OBVIOUS
<1>2. \A i \in k .. Len(C) : C[i] \in Nat
  BY <1>1
<1>3. /\ SubSeq(C, k, Len(C)) \in Seq(Nat)
      /\ Len(SubSeq(C, k, Len(C))) =
           IF k <= Len(C) THEN Len(C) - k + 1 ELSE 0
      /\ \A i \in 1 .. Len(C) - k + 1 : SubSeq(C, k, Len(C))[i] = C[k + i - 1]
  BY <1>1, <1>2, SubSeqProperties
<1>4. \A i \in 1 .. Len(C) - k + 1 : k + i - 1 = i + k - 1
  BY <1>1
<1> QED
  BY <1>1, <1>3, <1>4 DEF Rest

LEMMA RestOfRest ==
  ASSUME NEW C \in Seq(Nat), NEW k \in 1 .. Len(C) + 1,
         NEW j \in 1 .. Len(Rest(C, k)) + 1
  PROVE  /\ k + j - 1 \in 1 .. Len(C) + 1
         /\ Rest(Rest(C, k), j) = Rest(C, k + j - 1)
<1> DEFINE R == Rest(C, k)
           m == k + j - 1
<1>1. /\ R \in Seq(Nat) /\ Len(R) = Len(C) - k + 1
      /\ \A i \in 1 .. Len(R) : R[i] = C[i + k - 1]
  BY RestFacts
<1> HIDE DEF R
<1>2. Len(C) \in Nat /\ j \in 1 .. Len(R) + 1
  BY DEF R
<1>3. m \in 1 .. Len(C) + 1
  BY <1>1, <1>2
<1>4. /\ Rest(R, j) \in Seq(Nat) /\ Len(Rest(R, j)) = Len(R) - j + 1
      /\ \A i \in 1 .. Len(R) - j + 1 : Rest(R, j)[i] = R[i + j - 1]
  BY <1>1, <1>2, RestFacts
<1>5. /\ Rest(C, m) \in Seq(Nat) /\ Len(Rest(C, m)) = Len(C) - m + 1
      /\ \A i \in 1 .. Len(C) - m + 1 : Rest(C, m)[i] = C[i + m - 1]
  BY <1>3, RestFacts
<1>6. Len(Rest(R, j)) = Len(Rest(C, m))
  BY <1>1, <1>2, <1>4, <1>5
<1>7. ASSUME NEW i \in 1 .. Len(Rest(R, j))
      PROVE  Rest(R, j)[i] = Rest(C, m)[i]
  <2>1. i \in 1 .. Len(R) - j + 1 /\ i + j - 1 \in 1 .. Len(R)
    BY <1>1, <1>2, <1>4
  <2>2. Rest(R, j)[i] = C[(i + j - 1) + k - 1]
    BY <1>1, <1>4, <2>1
  <2>3. i \in 1 .. Len(C) - m + 1 /\ i + m - 1 = (i + j - 1) + k - 1
    BY <1>1, <1>2, <2>1
  <2> QED
    BY <1>5, <2>2, <2>3
<1>8. Rest(R, j) = Rest(C, m)
  BY <1>4, <1>5, <1>6, <1>7, SeqEqual
<1> QED
  BY <1>3, <1>8 DEF R

(* One more frame in front.                                                *)
LEMMA PushFacts ==
  ASSUME NEW C \in Seq(Nat), NEW n \in Nat
  PROVE  /\ <<n>> \o C \in Seq(Nat)
         /\ Len(<<n>> \o C) = Len(C) + 1
         /\ (<<n>> \o C)[1] = n
         /\ \A i \in 2 .. Len(C) + 1 : (<<n>> \o C)[i] = C[i - 1]
         /\ \A k \in 1 .. Len(C) + 1 : Rest(<<n>> \o C, k + 1) = Rest(C, k)
<1>1. PICK P : P = <<n>> \o C
  OBVIOUS
<1>2. <<n>> \in Seq(Nat) /\ Len(<<n>>) = 1 /\ <<n>>[1] = n
  OBVIOUS
<1>3. /\ P \in Seq(Nat) /\ Len(P) = 1 + Len(C)
      /\ \A i \in 1 .. 1 + Len(C) :
           P[i] = IF i <= 1 THEN <<n>>[i] ELSE C[i - 1]
  BY <1>2, <1>1, ConcatProperties
<1>4. Len(C) \in Nat
  OBVIOUS
<1>5. P[1] = n /\ \A i \in 2 .. Len(P) : P[i] = C[i - 1]
  BY <1>2, <1>3, <1>4
<1>6. ASSUME NEW k \in 1 .. Len(C) + 1
      PROVE  Rest(P, k + 1) = Rest(C, k)
  <2>1. k + 1 \in 1 .. Len(P) + 1
    BY <1>3, <1>4
  <2>2. /\ Rest(P, k + 1) \in Seq(Nat)
        /\ Len(Rest(P, k + 1)) = Len(P) - (k + 1) + 1
        /\ \A i \in 1 .. Len(P) - (k + 1) + 1 :
             Rest(P, k + 1)[i] = P[i + (k + 1) - 1]
    BY <1>3, <2>1, RestFacts
  <2>3. /\ Rest(C, k) \in Seq(Nat) /\ Len(Rest(C, k)) = Len(C) - k + 1
        /\ \A i \in 1 .. Len(C) - k + 1 : Rest(C, k)[i] = C[i + k - 1]
    BY RestFacts
  <2>4. Len(Rest(P, k + 1)) = Len(Rest(C, k))
    BY <1>3, <1>4, <2>2, <2>3
  <2>5. ASSUME NEW i \in 1 .. Len(Rest(P, k + 1))
        PROVE  Rest(P, k + 1)[i] = Rest(C, k)[i]
    <3>1. /\ i \in 1 .. Len(P) - (k + 1) + 1 /\ i \in 1 .. Len(C) - k + 1
          /\ i + (k + 1) - 1 = i + k /\ i + k \in 2 .. Len(P)
          /\ (i + k) - 1 = i + k - 1
      BY <1>3, <1>4, <2>2
    <3>2. Rest(P, k + 1)[i] = P[i + k]
      BY <2>2, <3>1
    <3>3. P[i + k] = C[i + k - 1]
      BY <1>5, <3>1
    <3> QED
      BY <2>3, <3>1, <3>2, <3>3
  <2> QED
    BY <2>2, <2>3, <2>4, <2>5, SeqEqual
<1>7. /\ P \in Seq(Nat) /\ Len(P) = Len(C) + 1 /\ P[1] = n
      /\ \A i \in 2 .. Len(C) + 1 : P[i] = C[i - 1]
  BY <1>3, <1>4, <1>5
<1> QED
  BY <1>1, <1>6, <1>7

(* The registered frames are frames, and no list of them is the mark of    *)
(* one that is not registered.                                             *)
LEMMA ListFacts ==
  ASSUME TypeOK, NEW t \in Threads, NEW C \in Seq(Nat), Lists(C, t)
  PROVE  /\ \A i \in 1 .. Len(C) : C[i] \in 1 .. Depth(t)
         /\ \A k \in 1 .. Len(C) + 1 : Rest(C, k) # Unregistered
<1>1. DOMAIN frames[t] = 1 .. Depth(t)
  BY TypeFacts DEF Depth
<1>2. \A i \in 1 .. Len(C) : C[i] \in 1 .. Depth(t)
  BY <1>1 DEF Lists, Registered
<1>3. ASSUME NEW k \in 1 .. Len(C) + 1, Rest(C, k) = Unregistered
      PROVE  FALSE
  <2>1. Len(Rest(C, k)) = 1 /\ Rest(C, k)[1] = 0
    BY <1>3 DEF Unregistered
  <2>2. Len(C) - k + 1 = 1 /\ 1 + k - 1 = k /\ k \in 1 .. Len(C)
    <3>1. Len(Rest(C, k)) = Len(C) - k + 1
      BY RestFacts
    <3>2. Len(C) - k + 1 = 1
      BY <2>1, <3>1
    <3>3. \A n \in Nat : \A m \in 1 .. n + 1 :
            n - m + 1 = 1 => 1 + m - 1 = m /\ m \in 1 .. n
      OBVIOUS
    <3>4. Len(C) \in Nat
      OBVIOUS
    <3> QED
      BY <3>2, <3>3, <3>4
  <2>3. C[k] = 0
    <3>1. Rest(C, k)[1] = C[1 + k - 1]
      BY <2>2, RestFacts
    <3> QED
      BY <2>1, <2>2, <3>1
  <2> QED
    BY <1>2, <2>2, <2>3
<1> QED
  BY <1>2, <1>3

-----------------------------------------------------------------------------
(* Steps that leave frames and buffers alone.                              *)
LEMMA FullKept ==
  ASSUME NEW t \in Threads, NEW C \in Seq(Nat), Full(C, t),
         frames'[t] = frames[t],
         \A b \in Buffers : Home[b] = t => saved'[b] = saved[b]
  PROVE  Full(C, t)'
<1>1. Registered(t)' = Registered(t)
  BY DEF Registered
<1>2. Lists(C, t)' /\ Linked(C, t)'
  BY <1>1 DEF Full, Lists, Linked
<1>3. \A b \in Buffers : Home[b] = t => Holds(C, b)'
  BY DEF Full, Holds
<1> QED
  BY <1>2, <1>3 DEF Full

(* The functions deeper than d return or are jumped out of: what remains   *)
(* of the list is the rest of it.                                          *)
LEMMA FullCut ==
  ASSUME TypeOK, NEW t \in Threads, NEW C \in Seq(Nat), Full(C, t),
         NEW d \in 1 .. Depth(t), NEW k \in 1 .. Len(C) + 1,
         \A i \in 1 .. Len(C) : C[i] <= d <=> i >= k,
         frames'[t] = SubSeq(frames[t], 1, d), Bury(t, d)
  PROVE  Full(Rest(C, k), t)'
<1> DEFINE R == Rest(C, k)
<1>1. /\ R \in Seq(Nat) /\ Len(R) = Len(C) - k + 1 /\ Len(C) \in Nat
      /\ \A i \in 1 .. Len(R) : R[i] = C[i + k - 1]
  BY RestFacts
<1>2. \A j \in 1 .. Len(R) + 1 :
        /\ k + j - 1 \in 1 .. Len(C) + 1
        /\ Rest(R, j) = Rest(C, k + j - 1)
  BY RestOfRest
<1> HIDE DEF R
<1>3. /\ frames[t] \in Seq(Frame) /\ Depth(t) \in Nat
      /\ DOMAIN frames[t] = 1 .. Depth(t)
  BY TypeFacts DEF Depth
<1>4. /\ DOMAIN frames'[t] = 1 .. d
      /\ \A e \in 1 .. d : frames'[t][e] = frames[t][e]
  <2>1. \A e \in 1 .. d : frames[t][e] \in Frame
    BY <1>3
  <2>2. /\ SubSeq(frames[t], 1, d) \in Seq(Frame)
        /\ Len(SubSeq(frames[t], 1, d)) = IF 1 <= d THEN d - 1 + 1 ELSE 0
        /\ \A e \in 1 .. d - 1 + 1 :
             SubSeq(frames[t], 1, d)[e] = frames[t][1 + e - 1]
    BY <2>1, SubSeqProperties
  <2> QED
    BY <1>3, <2>2
<1>5. \A e \in 1 .. d : e \in Registered(t)' <=> e \in Registered(t)
  BY <1>3, <1>4 DEF Registered
<1>6. \A e \in Registered(t)' : e \in 1 .. d /\ e \in Registered(t)
  BY <1>3, <1>4 DEF Registered
<1>7. Lists(C, t) /\ Linked(C, t)
  BY DEF Full
<1>8. \A i \in 1 .. Len(R) :
        /\ i + k - 1 \in 1 .. Len(C) /\ R[i] = C[i + k - 1]
        /\ R[i] \in 1 .. d
  <2> TAKE i \in 1 .. Len(R)
  <2>1. i + k - 1 \in 1 .. Len(C) /\ i + k - 1 >= k /\ R[i] = C[i + k - 1]
    BY <1>1
  <2>2. C[i + k - 1] <= d /\ C[i + k - 1] \in 1 .. Depth(t)
    BY <1>7, <2>1, ListFacts
  <2> QED
    BY <2>1, <2>2
<1>9. Lists(R, t)'
  <2>1. \A i \in 1 .. Len(R) : R[i] \in Registered(t)'
    BY <1>5, <1>7, <1>8 DEF Lists
  <2>2. ASSUME NEW e \in Registered(t)'
        PROVE  \E i \in 1 .. Len(R) : R[i] = e
    <3>1. e \in 1 .. d /\ e \in Registered(t)
      BY <1>6
    <3>2. PICK i \in 1 .. Len(C) : C[i] = e
      BY <1>7, <3>1 DEF Lists
    <3>3. i >= k
      BY <3>1, <3>2
    <3>4. i - k + 1 \in 1 .. Len(R) /\ (i - k + 1) + k - 1 = i
      BY <1>1, <3>3
    <3> QED
      BY <1>1, <3>2, <3>4
  <2>3. ASSUME NEW i \in 1 .. Len(R), NEW j \in 1 .. Len(R), i < j
        PROVE  R[i] > R[j]
    <3>1. i + k - 1 < j + k - 1
      BY <1>1, <2>3
    <3> QED
      BY <1>7, <1>8, <3>1 DEF Lists
  <2> QED
    BY <2>1, <2>2, <2>3 DEF Lists
<1>10. Linked(R, t)'
  <2> SUFFICES ASSUME NEW i \in 1 .. Len(R)
               PROVE  frames'[t][R[i]].link = Rest(R, i + 1)
    BY DEF Linked
  <2>1. frames'[t][R[i]].link = frames[t][C[i + k - 1]].link
    BY <1>4, <1>8
  <2>2. frames[t][C[i + k - 1]].link = Rest(C, (i + k - 1) + 1)
    BY <1>7, <1>8 DEF Linked
  <2>3. i + 1 \in 1 .. Len(R) + 1 /\ k + (i + 1) - 1 = (i + k - 1) + 1
    BY <1>1
  <2>4. Rest(R, i + 1) = Rest(C, k + (i + 1) - 1)
    BY <1>2, <2>3
  <2> QED
    BY <2>1, <2>2, <2>3, <2>4
<1>11. ASSUME NEW b \in Buffers, Home[b] = t, saved'[b].depth # 0
       PROVE  \E j \in 1 .. Len(R) + 1 :
                /\ saved'[b].link = Rest(R, j)
                /\ \A i \in 1 .. Len(R) : R[i] <= saved'[b].depth <=> i >= j
  <2>1. /\ saved'[b] = saved[b] /\ saved[b].depth <= d
        /\ saved[b].depth \in Nat
    BY <1>11, BuryFacts, BufferTypes
  <2>2. PICK m \in 1 .. Len(C) + 1 :
          /\ saved[b].link = Rest(C, m)
          /\ \A i \in 1 .. Len(C) : C[i] <= saved[b].depth <=> i >= m
    BY <1>11, <2>1 DEF Full, Holds
  <2>3. m >= k
    <3>1. CASE m = Len(C) + 1
      BY <1>1, <3>1
    <3>2. CASE m # Len(C) + 1
      <4>1. m \in 1 .. Len(C) /\ m >= m
        BY <1>1, <3>2
      <4>2. C[m] <= saved[b].depth /\ C[m] \in Nat
        BY <2>2, <4>1
      <4>3. C[m] <= d
        BY <2>1, <4>2
      <4> QED
        BY <4>1, <4>3
    <3> QED
      BY <3>1, <3>2
  <2> DEFINE j == m - k + 1
  <2>4. j \in 1 .. Len(R) + 1 /\ k + j - 1 = m
    BY <1>1, <2>3
  <2>5. saved'[b].link = Rest(R, j)
    BY <1>2, <2>1, <2>2, <2>4
  <2>6. \A i \in 1 .. Len(R) : R[i] <= saved'[b].depth <=> i >= j
    <3> TAKE i \in 1 .. Len(R)
    <3>1. R[i] <= saved[b].depth <=> i + k - 1 >= m
      BY <1>8, <2>2
    <3>2. i + k - 1 >= m <=> i >= j
      BY <1>1
    <3> QED
      BY <2>1, <3>1, <3>2
  <2> QED
    BY <2>4, <2>5, <2>6
<1>12. \A b \in Buffers : Home[b] = t => Holds(R, b)'
  BY <1>11 DEF Holds
<1>13. Full(R, t)'
  BY <1>9, <1>10, <1>12 DEF Full
<1> QED
  BY <1>13 DEF R


-----------------------------------------------------------------------------
(* The list of another thread.                                             *)
LEMMA OthersChain ==
  ASSUME CInv, NEW t \in Threads, OthersSame(t)
  PROVE  \A u \in Threads \ {t} : ChainOK(u)'
<1> SUFFICES ASSUME NEW u \in Threads \ {t}
             PROVE  ChainOK(u)'
  OBVIOUS
<1>1. /\ pc'[u] = pc[u] /\ frames'[u] = frames[u] /\ chain'[u] = chain[u]
      /\ \A b \in Buffers : Home[b] = u => saved'[b] = saved[b]
  BY DEF OthersSame
<1>2. PICK C \in Seq(Nat) : Full(C, u) /\ (pc[u] \in Settled => chain[u] = C)
  BY DEF CInv, ChainOK
<1>3. Full(C, u)'
  BY <1>1, <1>2, FullKept
<1>4. pc[u] # "astray"
  BY DEF CInv, ChainOK
<1> QED
  BY <1>1, <1>2, <1>3, <1>4 DEF ChainOK, Settled

(* A step that leaves the frames, the list and the buffers alone and does  *)
(* not end a longjmp.                                                      *)
LEMMA QuietStep ==
  ASSUME CInv, NEW t \in Threads,
         frames' = frames, chain' = chain, saved' = saved,
         \A u \in Threads \ {t} : pc'[u] = pc[u],
         pc'[t] # "astray", pc'[t] \in Settled => pc[t] \in Settled
  PROVE  CInv'
<1> SUFFICES ASSUME NEW u \in Threads
             PROVE  ChainOK(u)'
  BY DEF CInv
<1>1. PICK C \in Seq(Nat) : Full(C, u) /\ (pc[u] \in Settled => chain[u] = C)
  BY DEF CInv, ChainOK
<1>2. Full(C, u)'
  BY <1>1, FullKept
<1>3. pc'[u] # "astray" /\ (pc'[u] \in Settled => pc[u] \in Settled)
  BY DEF CInv, ChainOK
<1> QED
  BY <1>1, <1>2, <1>3 DEF ChainOK, Settled

LEMMA QuietSteps ==
  ASSUME IInv, CInv, NEW t \in Threads,
         \/ Compute(t) \/ Resume(t) \/ SpillStore(t) \/ SpillLoad(t)
         \/ \E b \in Buffers, v \in {0, 2} : Longjmp(t, b, v)
  PROVE  CInv'
<1>1. pc \in [Threads -> Labels]
  BY DEF IInv, TypeOK
<1>2. CASE Compute(t)
  <2>1. UNCHANGED <<frames, chain, saved, pc>> /\ pc[t] = "run"
    BY <1>2 DEF Compute, Stub, At
  <2> QED
    BY <2>1, QuietStep DEF Settled
<1>3. CASE Resume(t)
  <2>1. /\ UNCHANGED <<frames, chain, saved>> /\ pc[t] = "resumed"
        /\ pc' = [pc EXCEPT ![t] = "run"]
    BY <1>3 DEF Resume, Return, Goto, At, history
  <2> QED
    BY <1>1, <2>1, QuietStep DEF Settled
<1>4. CASE SpillStore(t)
  <2>1. /\ UNCHANGED <<frames, chain, saved>> /\ pc[t] = "set_spill"
        /\ pc' = pc \/ pc' = [pc EXCEPT ![t] = "run"]
    BY <1>4 DEF SpillStore, Return, Goto, At, history
  <2> QED
    BY <1>1, <2>1, QuietStep DEF Settled
<1>5. CASE SpillLoad(t)
  <2>1. /\ UNCHANGED <<frames, chain, saved>> /\ pc[t] = "jmp_spill"
        /\ pc' = pc \/ pc' = [pc EXCEPT ![t] = "jmp_last"]
    BY <1>5 DEF SpillLoad, Goto, At, history
  <2> QED
    BY <1>1, <2>1, QuietStep DEF Settled
<1>6. CASE \E b \in Buffers, v \in {0, 2} : Longjmp(t, b, v)
  <2>1. /\ UNCHANGED <<frames, chain, saved>>
        /\ pc' = [pc EXCEPT ![t] = "jmp_spill"]
    BY <1>6 DEF Longjmp, Goto, history
  <2> QED
    BY <1>1, <2>1, QuietStep DEF Settled
<1> QED
  BY <1>2, <1>3, <1>4, <1>5, <1>6

(* _setjmp3: the buffer holds the whole list.                              *)
LEMMA SetjmpChain ==
  ASSUME IInv, CInv, NEW t \in Threads, NEW b \in Buffers, Setjmp(t, b)
  PROVE  CInv'
<1>1. /\ pc[t] = "run" /\ Home[b] = t
      /\ saved' = [saved EXCEPT ![b] = [regs |-> regs[t], depth |-> Depth(t),
                                        link |-> chain[t]]]
      /\ pc' = [pc EXCEPT ![t] = "set_spill"]
      /\ UNCHANGED <<frames, chain>>
  BY DEF Setjmp, At, Goto
<1>2. TypeOK
  BY DEF IInv
<1>3. /\ pc'[t] = "set_spill"
      /\ \A u \in Threads \ {t} : pc'[u] = pc[u]
      /\ saved'[b].depth = Depth(t) /\ saved'[b].link = chain[t]
      /\ \A c \in Buffers \ {b} : saved'[c] = saved[c]
  BY <1>1, <1>2 DEF TypeOK
<1>4. PICK C \in Seq(Nat) : Full(C, t) /\ chain[t] = C
  BY <1>1 DEF CInv, ChainOK, Settled
<1>5. Full(C, t)'
  <2>1. Registered(t)' = Registered(t)
    BY <1>1 DEF Registered
  <2>2. Lists(C, t)' /\ Linked(C, t)'
    <3>1. Lists(C, t) /\ Linked(C, t) /\ frames' = frames
      BY <1>1, <1>4 DEF Full
    <3>2. Lists(C, t)'
      BY <2>1, <3>1 DEF Lists
    <3>3. Linked(C, t)'
      BY <3>1 DEF Linked
    <3> QED
      BY <3>2, <3>3
  <2>3. \A c \in Buffers \ {b} : Home[c] = t => Holds(C, c)'
    BY <1>3, <1>4 DEF Full, Holds
  <2>4. Holds(C, b)'
    <3>1. 1 \in 1 .. Len(C) + 1 /\ Rest(C, 1) = C
      BY SubSeqFull DEF Rest
    <3>2. \A i \in 1 .. Len(C) : C[i] <= Depth(t) <=> i >= 1
      BY <1>2, <1>4, ListFacts, TypeFacts DEF Full
    <3> QED
      BY <1>3, <1>4, <3>1, <3>2 DEF Holds
  <2> QED
    BY <2>2, <2>3, <2>4 DEF Full
<1>6. ChainOK(t)'
  BY <1>1, <1>3, <1>4, <1>5 DEF ChainOK
<1>7. ASSUME NEW u \in Threads \ {t}
      PROVE  ChainOK(u)'
  <2>1. PICK D \in Seq(Nat) :
          Full(D, u) /\ (pc[u] \in Settled => chain[u] = D)
    BY DEF CInv, ChainOK
  <2>2. Full(D, u)'
    BY <1>1, <1>3, <2>1, FullKept
  <2>3. pc'[u] # "astray"
    BY <1>3 DEF CInv, ChainOK
  <2> QED
    BY <1>1, <1>3, <2>1, <2>2, <2>3 DEF ChainOK, Settled
<1> QED
  BY <1>6, <1>7 DEF CInv

(* The unwinding loop finds the rest that the buffer holds.                *)
LEMMA UnwindChain ==
  ASSUME IInv, CInv, NEW t \in Threads, NEW b \in Buffers, Unwind(t, b)
  PROVE  CInv'
<1>1. /\ pc[t] = "run" /\ Home[b] = t /\ saved[b].depth # 0
      /\ UNCHANGED <<frames, saved>>
  BY DEF Unwind, At, history
<1>2. TypeOK
  BY DEF IInv
<1>3. PICK C \in Seq(Nat) : Full(C, t) /\ chain[t] = C
  BY <1>1 DEF CInv, ChainOK, Settled
<1>4. PICK k \in 1 .. Len(C) + 1 : saved[b].link = Rest(C, k)
  BY <1>1, <1>3 DEF Full, Holds
<1>5. buf[b].link = saved[b].link
  BY <1>1 DEF IInv, BufferOK
<1>6. \E n \in 1 .. Len(chain[t]) + 1 :
        SubSeq(chain[t], n, Len(chain[t])) = buf[b].link
  BY <1>3, <1>4, <1>5 DEF Rest
<1>7. /\ chain' = [chain EXCEPT ![t] = buf[b].link]
      /\ pc' = [pc EXCEPT ![t] = "unwound"]
  BY <1>6 DEF Unwind, Goto
<1>8. /\ pc'[t] = "unwound"
      /\ \A u \in Threads \ {t} : pc'[u] = pc[u] /\ chain'[u] = chain[u]
  BY <1>2, <1>7 DEF TypeOK
<1>9. Full(C, t)'
  BY <1>1, <1>3, FullKept
<1>10. ChainOK(t)'
  BY <1>8, <1>9 DEF ChainOK, Settled
<1>11. ASSUME NEW u \in Threads \ {t}
       PROVE  ChainOK(u)'
  <2>1. PICK D \in Seq(Nat) :
          Full(D, u) /\ (pc[u] \in Settled => chain[u] = D)
    BY DEF CInv, ChainOK
  <2>2. Full(D, u)'
    BY <1>1, <2>1, FullKept
  <2>3. pc'[u] # "astray"
    BY <1>8 DEF CInv, ChainOK
  <2> QED
    BY <1>8, <2>1, <2>2, <2>3 DEF ChainOK, Settled
<1> QED
  BY <1>10, <1>11 DEF CInv


-----------------------------------------------------------------------------
(* A prologue: a registered frame goes in front.                           *)
LEMMA EnterChain ==
  ASSUME IInv, CInv, NEW t \in Threads, NEW registers \in BOOLEAN,
         Enter(t, registers)
  PROVE  CInv'
<1>1. PICK D \in Nat : D = Depth(t)
  BY TypeFacts DEF IInv
<1> DEFINE f == [regs |-> regs[t],
                 link |-> IF registers THEN chain[t] ELSE Unregistered]
<1>2. /\ pc[t] = "run"
      /\ frames' = [frames EXCEPT ![t] = Append(frames[t], f)]
      /\ chain' = IF registers
                    THEN [chain EXCEPT ![t] = <<D + 1>> \o chain[t]]
                    ELSE chain
      /\ UNCHANGED <<pc, saved, buf, alone, arg, next, regs, rax>>
  BY <1>1 DEF Enter, Stub, At
<1>3. TypeOK
  BY DEF IInv
<1>4. /\ regs[t] \in [Regs -> Vals] /\ frames[t] \in Seq(Frame)
      /\ chain[t] \in Seq(Nat) /\ D \in Nat
      /\ DOMAIN frames[t] = 1 .. D
  BY <1>3, <1>1, TypeFacts DEF Depth
<1>5. f \in Frame
  <2>1. Unregistered \in Seq(Nat)
    BY DEF Unregistered
  <2> QED
    BY <1>4, <2>1 DEF Frame
<1>6. f.link = IF registers THEN chain[t] ELSE Unregistered
  OBVIOUS
<1> HIDE DEF f
<1>7. /\ Append(frames[t], f) \in Seq(Frame)
      /\ Len(Append(frames[t], f)) = D + 1
      /\ \A d \in 1 .. D : Append(frames[t], f)[d] = frames[t][d]
      /\ Append(frames[t], f)[D + 1] = f
  BY <1>4, <1>5, <1>1, AppendProperties DEF Depth
<1>8. frames'[t] = Append(frames[t], f)
  BY <1>2, <1>3 DEF TypeOK
<1>9. /\ DOMAIN frames'[t] = 1 .. D + 1
      /\ \A d \in 1 .. D : frames'[t][d] = frames[t][d]
      /\ frames'[t][D + 1] = f
  BY <1>7, <1>8
<1>10. \A u \in Threads \ {t} : frames'[u] = frames[u] /\ chain'[u] = chain[u]
  BY <1>2, <1>3 DEF TypeOK
<1>11. OthersSame(t)
  BY <1>2, <1>10 DEF OthersSame
<1> SUFFICES ChainOK(t)'
  BY <1>11, OthersChain DEF CInv
<1>12. PICK C \in Seq(Nat) : Full(C, t) /\ chain[t] = C
  BY <1>2 DEF CInv, ChainOK, Settled
<1>13. /\ \A i \in 1 .. Len(C) : C[i] \in 1 .. D
       /\ C # Unregistered
  <2>1. Rest(C, 1) = C /\ 1 \in 1 .. Len(C) + 1
    BY SubSeqFull DEF Rest
  <2> QED
    BY <1>3, <1>12, <1>1, <2>1, ListFacts DEF Full
<1>14. \A b \in Buffers :
         Home[b] = t /\ saved[b].depth # 0
           => saved[b].depth \in Nat /\ saved[b].depth <= D
  BY <1>3, <1>1, BufferTypes DEF IInv, BufferOK
<1>15. \A d \in 1 .. D : d \in Registered(t)' <=> d \in Registered(t)
  BY <1>4, <1>9 DEF Registered
<1>16. Registered(t) \subseteq 1 .. D
  BY <1>4 DEF Registered
<1>17. CASE registers = FALSE
  <2>1. f.link = Unregistered
    BY <1>6, <1>17
  <2>2. Registered(t)' = Registered(t)
    <3>1. D + 1 \notin Registered(t)'
      BY <1>9, <2>1 DEF Registered
    <3>2. Registered(t)' \subseteq 1 .. D + 1
      BY <1>9 DEF Registered
    <3>3. \A e \in 1 .. D + 1 : e # D + 1 => e \in 1 .. D
      OBVIOUS
    <3>4. \A e \in Registered(t)' : e \in 1 .. D
      BY <3>1, <3>2, <3>3
    <3>5. \A e \in Registered(t)' : e \in Registered(t)
      BY <1>15, <3>4
    <3>6. \A e \in Registered(t) : e \in Registered(t)'
      BY <1>15, <1>16
    <3> QED
      BY <3>5, <3>6
  <2>3. Lists(C, t)'
    BY <1>12, <2>2 DEF Full, Lists
  <2>4. Linked(C, t)'
    BY <1>9, <1>12, <1>13 DEF Full, Linked
  <2>5. \A b \in Buffers : Home[b] = t => Holds(C, b)'
    BY <1>2, <1>12 DEF Full, Holds
  <2>6. Full(C, t)'
    BY <2>3, <2>4, <2>5 DEF Full
  <2>7. chain'[t] = C
    BY <1>2, <1>12, <1>17
  <2> QED
    BY <1>2, <2>6, <2>7 DEF ChainOK
<1>18. CASE registers = TRUE
  <2>1. PICK n \in Nat : n = D + 1
    BY <1>4
  <2>2. PICK P : P = <<n>> \o C
    OBVIOUS
  <2>3. /\ P \in Seq(Nat) /\ Len(P) = Len(C) + 1 /\ P[1] = D + 1
        /\ \A i \in 2 .. Len(P) : P[i] = C[i - 1]
        /\ \A k \in 1 .. Len(C) + 1 : Rest(P, k + 1) = Rest(C, k)
    <3>1. /\ <<n>> \o C \in Seq(Nat)
          /\ Len(<<n>> \o C) = Len(C) + 1
          /\ (<<n>> \o C)[1] = n
          /\ \A i \in 2 .. Len(C) + 1 : (<<n>> \o C)[i] = C[i - 1]
          /\ \A k \in 1 .. Len(C) + 1 : Rest(<<n>> \o C, k + 1) = Rest(C, k)
      BY PushFacts
    <3> QED
      BY <2>1, <2>2, <3>1
  <2>4. chain'[t] = P
    BY <1>2, <1>3, <1>12, <1>18, <2>1, <2>2 DEF TypeOK
  <2>5. f.link = C /\ Rest(C, 1) = C /\ Len(C) \in Nat
    BY <1>6, <1>12, <1>18, SubSeqFull DEF Rest
  <2>6. D + 1 \in Registered(t)'
    BY <1>4, <1>9, <1>13, <2>5 DEF Registered
  <2>7. \A d \in Registered(t)' : d = D + 1 \/ d \in Registered(t)
    <3>1. Registered(t)' \subseteq 1 .. D + 1
      BY <1>9 DEF Registered
    <3> QED
      BY <1>4, <1>15, <3>1
  <2>8. \A i \in 2 .. Len(P) :
          /\ i - 1 \in 1 .. Len(C) /\ P[i] = C[i - 1]
          /\ P[i] \in 1 .. D
    <3> TAKE i \in 2 .. Len(P)
    <3>1. i - 1 \in 1 .. Len(C)
      BY <2>3, <2>5
    <3> QED
      BY <1>13, <2>3, <3>1
  <2>9. Lists(P, t)'
    <3>1. ASSUME NEW i \in 1 .. Len(P)
          PROVE  P[i] \in Registered(t)'
      <4>1. CASE i = 1
        BY <2>3, <2>6, <4>1
      <4>2. CASE i # 1
        <5>1. i \in 2 .. Len(P)
          BY <2>3, <2>5, <4>2
        <5>2. C[i - 1] \in Registered(t)
          BY <1>12, <2>8, <5>1 DEF Full, Lists
        <5> QED
          BY <1>15, <2>8, <5>1, <5>2
      <4> QED
        BY <4>1, <4>2
    <3>2. ASSUME NEW d \in Registered(t)'
          PROVE  \E i \in 1 .. Len(P) : P[i] = d
      <4>1. CASE d = D + 1
        <5>1. 1 \in 1 .. Len(P)
          BY <2>3, <2>5
        <5> QED
          BY <2>3, <4>1, <5>1
      <4>2. CASE d \in Registered(t)
        <5>1. PICK i \in 1 .. Len(C) : C[i] = d
          BY <1>12, <4>2 DEF Full, Lists
        <5>2. i + 1 \in 2 .. Len(P) /\ (i + 1) - 1 = i /\ i + 1 \in 1 .. Len(P)
          BY <2>3, <2>5
        <5> QED
          BY <2>3, <5>1, <5>2
      <4> QED
        BY <2>7, <4>1, <4>2
    <3>3. ASSUME NEW i \in 1 .. Len(P), NEW j \in 1 .. Len(P), i < j
          PROVE  P[i] > P[j]
      <4>1. j \in 2 .. Len(P)
        BY <3>3
      <4>2. CASE i = 1
        <5>1. P[i] = D + 1 /\ P[j] \in 1 .. D
          BY <2>3, <2>8, <4>1, <4>2
        <5> QED
          BY <5>1
      <4>3. CASE i # 1
        <5>1. i \in 2 .. Len(P) /\ i - 1 < j - 1
          BY <3>3, <4>3
        <5>2. /\ i - 1 \in 1 .. Len(C) /\ P[i] = C[i - 1]
              /\ j - 1 \in 1 .. Len(C) /\ P[j] = C[j - 1]
          BY <2>8, <4>1, <5>1
        <5>3. Lists(C, t)
          BY <1>12 DEF Full
        <5>4. C[i - 1] > C[j - 1]
          BY <5>1, <5>2, <5>3 DEF Lists
        <5> QED
          BY <5>2, <5>4
      <4> QED
        BY <4>2, <4>3
    <3> QED
      BY <3>1, <3>2, <3>3 DEF Lists
  <2>10. Linked(P, t)'
    <3> SUFFICES ASSUME NEW i \in 1 .. Len(P)
                 PROVE  frames'[t][P[i]].link = Rest(P, i + 1)
      BY DEF Linked
    <3>1. CASE i = 1
      <4>1. 1 \in 1 .. Len(C) + 1
        BY <2>5
      <4> QED
        BY <1>9, <2>3, <2>5, <3>1, <4>1
    <3>2. CASE i # 1
      <4>1. i \in 2 .. Len(P) /\ i \in 1 .. Len(C) + 1
        BY <2>3, <2>5, <3>2
      <4>2. frames'[t][P[i]].link = frames[t][C[i - 1]].link
        BY <1>9, <2>8, <4>1
      <4>3. frames[t][C[i - 1]].link = Rest(C, (i - 1) + 1)
        BY <1>12, <2>8, <4>1 DEF Full, Linked
      <4>4. (i - 1) + 1 = i
        BY <4>1
      <4> QED
        BY <2>3, <4>1, <4>2, <4>3, <4>4
    <3> QED
      BY <3>1, <3>2
  <2>11. ASSUME NEW b \in Buffers, Home[b] = t, saved[b].depth # 0
         PROVE  \E m \in 1 .. Len(P) + 1 :
                  /\ saved[b].link = Rest(P, m)
                  /\ \A i \in 1 .. Len(P) : P[i] <= saved[b].depth <=> i >= m
    <3>1. PICK k \in 1 .. Len(C) + 1 :
            /\ saved[b].link = Rest(C, k)
            /\ \A i \in 1 .. Len(C) : C[i] <= saved[b].depth <=> i >= k
      BY <1>12, <2>11 DEF Full, Holds
    <3>2. saved[b].depth \in Nat /\ saved[b].depth <= D
      BY <1>14, <2>11
    <3>3. k + 1 \in 1 .. Len(P) + 1 /\ saved[b].link = Rest(P, k + 1)
      BY <2>3, <2>5, <3>1
    <3>4. ASSUME NEW i \in 1 .. Len(P)
          PROVE  P[i] <= saved[b].depth <=> i >= k + 1
      <4>1. CASE i = 1
        <5>1. ~(P[i] <= saved[b].depth)
          BY <1>4, <2>3, <3>2, <4>1
        <5>2. ~(i >= k + 1)
          BY <4>1
        <5> QED
          BY <5>1, <5>2
      <4>2. CASE i # 1
        <5>1. i \in 2 .. Len(P)
          BY <4>2
        <5>2. P[i] <= saved[b].depth <=> i - 1 >= k
          BY <2>8, <3>1, <5>1
        <5>3. i - 1 >= k <=> i >= k + 1
          BY <5>1
        <5> QED
          BY <5>2, <5>3
      <4> QED
        BY <4>1, <4>2
    <3> QED
      BY <3>3, <3>4
  <2>12. \A b \in Buffers : Home[b] = t => Holds(P, b)'
    BY <1>2, <2>11 DEF Holds
  <2>13. Full(P, t)'
    BY <2>9, <2>10, <2>12 DEF Full
  <2> QED
    BY <1>2, <2>3, <2>4, <2>13 DEF ChainOK
<1> QED
  BY <1>17, <1>18

(* An epilogue: a registered frame is taken from the front.                *)
LEMMA LeaveChain ==
  ASSUME IInv, CInv, NEW t \in Threads, Leave(t)
  PROVE  CInv'
<1>1. PICK D \in Nat : D = Depth(t)
  BY TypeFacts DEF IInv
<1> DEFINE f == frames[t][D]
<1>2. /\ pc[t] = "run" /\ D > 1
      /\ regs' = [regs EXCEPT ![t] = f.regs]
      /\ chain' = IF f.link = Unregistered
                    THEN chain ELSE [chain EXCEPT ![t] = f.link]
      /\ frames' = [frames EXCEPT ![t] = SubSeq(frames[t], 1, D - 1)]
      /\ Bury(t, D - 1)
      /\ UNCHANGED <<buf, slot, pc, arg, next, rax, alone>>
  BY <1>1 DEF Leave, Stub, At
<1>3. TypeOK
  BY DEF IInv
<1>4. /\ D \in Nat /\ D - 1 \in 1 .. D /\ D - 1 \in Nat
      /\ DOMAIN frames[t] = 1 .. D
  BY <1>2, <1>3, <1>1, TypeFacts DEF Depth
<1>5. frames'[t] = SubSeq(frames[t], 1, D - 1)
  BY <1>2, <1>3 DEF TypeOK
<1>6. \A u \in Threads \ {t} :
        /\ regs'[u] = regs[u] /\ frames'[u] = frames[u]
        /\ chain'[u] = chain[u]
  BY <1>2, <1>3 DEF TypeOK
<1>7. OthersSame(t)
  <2>1. \A b \in Buffers : Home[b] # t => saved'[b] = saved[b]
    BY <1>2, <1>3, <1>4, BuryFacts
  <2> QED
    BY <1>2, <1>6, <2>1 DEF OthersSame
<1> SUFFICES ChainOK(t)'
  BY <1>7, OthersChain DEF CInv
<1>8. PICK C \in Seq(Nat) : Full(C, t) /\ chain[t] = C
  BY <1>2 DEF CInv, ChainOK, Settled
<1>9. /\ \A i \in 1 .. Len(C) : C[i] \in 1 .. D
      /\ \A k \in 1 .. Len(C) + 1 : Rest(C, k) # Unregistered
  BY <1>3, <1>8, <1>1, ListFacts DEF Full
<1>10. Lists(C, t) /\ Linked(C, t)
  BY <1>8 DEF Full
<1>11. f.link # Unregistered <=> D \in Registered(t)
  BY <1>2, <1>4 DEF Registered
<1> HIDE DEF f
<1>12. ASSUME NEW k \in 1 .. Len(C) + 1,
              \A i \in 1 .. Len(C) : C[i] <= D - 1 <=> i >= k,
              chain'[t] = Rest(C, k)
       PROVE  ChainOK(t)'
  <2>1. Full(Rest(C, k), t)'
    BY <1>2, <1>3, <1>4, <1>5, <1>8, <1>12, <1>1, FullCut
  <2>2. Rest(C, k) \in Seq(Nat)
    BY RestFacts
  <2> QED
    BY <1>2, <1>12, <2>1, <2>2 DEF ChainOK
<1>13. CASE f.link = Unregistered
  <2>1. \A i \in 1 .. Len(C) : C[i] # D
    BY <1>10, <1>11, <1>13 DEF Lists
  <2>2. \A i \in 1 .. Len(C) : C[i] <= D - 1 <=> i >= 1
    BY <1>4, <1>9, <2>1
  <2>3. 1 \in 1 .. Len(C) + 1 /\ Rest(C, 1) = C
    BY SubSeqFull DEF Rest
  <2>4. chain'[t] = C
    BY <1>2, <1>8, <1>13
  <2> QED
    BY <1>12, <2>2, <2>3, <2>4
<1>14. CASE f.link # Unregistered
  <2>1. PICK i \in 1 .. Len(C) : C[i] = D
    BY <1>10, <1>11, <1>14 DEF Lists
  <2>2. i = 1
    <3>1. ASSUME i # 1
          PROVE  FALSE
      <4>1. 1 \in 1 .. Len(C) /\ 1 < i
        BY <3>1
      <4>2. C[1] > C[i]
        BY <1>10, <4>1 DEF Lists
      <4> QED
        BY <1>4, <1>9, <2>1, <4>1, <4>2
    <3> QED
      BY <3>1
  <2>3. 2 \in 1 .. Len(C) + 1
    BY <2>1, <2>2
  <2>4. ASSUME NEW j \in 1 .. Len(C)
        PROVE  C[j] <= D - 1 <=> j >= 2
    <3>1. CASE j = 1
      BY <1>4, <2>1, <2>2, <3>1
    <3>2. CASE j # 1
      <4>1. 1 < j /\ 1 \in 1 .. Len(C) /\ j >= 2
        BY <3>2
      <4>2. C[1] > C[j]
        BY <1>10, <4>1 DEF Lists
      <4> QED
        BY <1>4, <1>9, <2>1, <2>2, <4>1, <4>2
    <3> QED
      BY <3>1, <3>2
  <2>5. f.link = Rest(C, 2)
    <3>1. frames[t][C[1]].link = Rest(C, 1 + 1)
      BY <1>10, <2>1, <2>2 DEF Linked
    <3> QED
      BY <2>1, <2>2, <3>1 DEF f
  <2>6. chain'[t] = Rest(C, 2)
    BY <1>2, <1>3, <1>14, <2>5 DEF TypeOK
  <2> QED
    BY <1>12, <2>3, <2>4, <2>6
<1> QED
  BY <1>13, <1>14

(* longjmp: the rest that the buffer holds, at the depth it was set.       *)
LEMMA JumpChain ==
  ASSUME IInv, CInv, NEW t \in Threads, Jump(t)
  PROVE  CInv'
<1> DEFINE b == arg[t]
           d == buf[b].depth
<1>1. /\ pc[t] = "jmp_last"
      /\ chain' = [chain EXCEPT ![t] = buf[b].link]
      /\ UNCHANGED <<regs, buf, slot, arg, next, alone>>
  BY DEF Jump, At
<1>2. /\ TypeOK /\ StubOK(t) /\ b \in Buffers /\ Home[b] = t
      /\ saved[b].depth # 0 \/ d = 0
  BY <1>1 DEF IInv, StubOK, JumpPCs
<1>3. BufferOK(b) /\ d \in Nat /\ Depth(t) \in Nat
  BY <1>2, TypeFacts, BufferTypes DEF IInv
<1>4. /\ chain'[t] = buf[b].link
      /\ \A u \in Threads \ {t} : chain'[u] = chain[u]
  BY <1>1, <1>2 DEF TypeOK
<1>5. PICK C \in Seq(Nat) : Full(C, t)
  BY DEF CInv, ChainOK
<1>6. CASE d = 0
  <2>1. pc' = [pc EXCEPT ![t] = "trap"] /\ UNCHANGED <<frames, rax, saved>>
    BY <1>6 DEF Jump, Goto
  <2>2. /\ pc'[t] = "trap"
        /\ \A u \in Threads \ {t} : pc'[u] = pc[u]
    BY <1>2, <2>1 DEF TypeOK
  <2>3. ChainOK(t)'
    <3>1. Full(C, t)'
      BY <1>5, <2>1, FullKept
    <3> QED
      BY <2>2, <3>1 DEF ChainOK, Settled
  <2>4. OthersSame(t)
    BY <1>1, <1>4, <2>1, <2>2 DEF OthersSame
  <2> QED
    BY <2>3, <2>4, OthersChain DEF CInv
<1>7. CASE d # 0
  <2>1. /\ rax' = [rax EXCEPT ![t] = IF rax[t] = 0 THEN 1 ELSE rax[t]]
        /\ frames' = [frames EXCEPT ![t] = SubSeq(frames[t], 1, d)]
        /\ Bury(t, d)
        /\ pc' = [pc EXCEPT ![t] = "resumed"]
    BY <1>7 DEF Jump, Goto
  <2>2. /\ saved[b].depth = d /\ saved[b].link = buf[b].link
        /\ d \in 1 .. Depth(t)
    BY <1>2, <1>3, <1>7 DEF BufferOK
  <2>3. /\ pc'[t] = "resumed"
        /\ frames'[t] = SubSeq(frames[t], 1, d)
        /\ \A u \in Threads \ {t} :
             pc'[u] = pc[u] /\ rax'[u] = rax[u] /\ frames'[u] = frames[u]
    BY <1>2, <2>1 DEF TypeOK
  <2>4. PICK k \in 1 .. Len(C) + 1 :
          /\ saved[b].link = Rest(C, k)
          /\ \A i \in 1 .. Len(C) : C[i] <= saved[b].depth <=> i >= k
    BY <1>2, <1>5, <1>7 DEF Full, Holds
  <2>5. Full(Rest(C, k), t)'
    BY <1>2, <1>5, <2>1, <2>2, <2>3, <2>4, FullCut
  <2>6. Rest(C, k) \in Seq(Nat) /\ chain'[t] = Rest(C, k)
    BY <1>4, <2>2, <2>4, RestFacts
  <2>7. ChainOK(t)'
    BY <2>3, <2>5, <2>6 DEF ChainOK
  <2>8. \A c \in Buffers : Home[c] # t => saved'[c] = saved[c]
    BY <1>2, <1>3, <2>1, BuryFacts
  <2>9. OthersSame(t)
    BY <1>1, <1>4, <2>3, <2>8 DEF OthersSame
  <2> QED
    BY <2>7, <2>9, OthersChain DEF CInv
<1> QED
  BY <1>6, <1>7

-----------------------------------------------------------------------------
(* Initially nothing is registered.                                        *)
LEMMA InitCInv == Init => CInv
<1> SUFFICES ASSUME Init, NEW t \in Threads
             PROVE  ChainOK(t)
  BY DEF CInv
<1>1. << >> \in Seq(Nat) /\ Len(<< >>) = 0
  OBVIOUS
<1>2. Registered(t) = {}
  <2>1. frames[t] = << [regs |-> Zeros(Regs), link |-> Unregistered] >>
    BY DEF Init
  <2> QED
    BY <2>1 DEF Registered
<1>3. Lists(<< >>, t) /\ Linked(<< >>, t)
  BY <1>1, <1>2 DEF Lists, Linked
<1>4. \A b \in Buffers : Holds(<< >>, b)
  BY ValFacts DEF Init, Holds
<1>5. Full(<< >>, t)
  BY <1>3, <1>4 DEF Full
<1>6. pc[t] = "run" /\ chain[t] = << >>
  BY DEF Init
<1> QED
  BY <1>1, <1>5, <1>6 DEF ChainOK

LEMMA NextCInv == IInv /\ CInv /\ [Next]_vars => CInv'
<1> SUFFICES ASSUME IInv, CInv, [Next]_vars
             PROVE  CInv'
  OBVIOUS
<1>1. CASE UNCHANGED vars
  <2>1. UNCHANGED <<frames, chain, saved, pc>>
    BY <1>1 DEF vars
  <2> QED
    BY <2>1, FullKept DEF CInv, ChainOK
<1>2. ASSUME NEW t \in Threads, Program(t)
      PROVE  CInv'
  <2>1. CASE Compute(t) \/ Resume(t)
    <3>1. UNCHANGED <<frames, chain, saved>>
      BY <2>1 DEF Compute, Resume, Stub, history
    <3> QED
      BY <2>1, QuietSteps
  <2>2. CASE Leave(t) \/ \E registers \in BOOLEAN : Enter(t, registers)
    BY <2>2, LeaveChain, EnterChain
  <2> QED
    BY <1>2, <2>1, <2>2 DEF Program
<1>3. ASSUME NEW t \in Threads, Runtime(t)
      PROVE  CInv'
  BY <1>3, QuietSteps, SetjmpChain, UnwindChain, JumpChain DEF Runtime
<1> QED
  BY <1>1, <1>2, <1>3 DEF Next

LEMMA ChainInvariance == Spec => []CInv
BY InitCInv, NextCInv, Invariance, PTL DEF Spec

(* gs:[0] lists the registered frames of the functions that have not       *)
(* returned, and no others, innermost first, whatever was jumped over      *)
(* (w2kseh64.py 110-111 and 147-148).                                      *)
THEOREM ChainsLive == Spec => []ChainLive
<1>1. ASSUME IInv, CInv, NEW t \in Threads,
             pc[t] \in {"run", "set_spill", "resumed"}
      PROVE  /\ {chain[t][i] : i \in DOMAIN chain[t]} = Registered(t)
             /\ \A i, j \in DOMAIN chain[t] :
                  i < j => chain[t][i] > chain[t][j]
  <2>1. PICK C \in Seq(Nat) : Full(C, t) /\ chain[t] = C
    BY <1>1 DEF CInv, ChainOK, Settled
  <2>2. DOMAIN C = 1 .. Len(C)
    OBVIOUS
  <2>3. Lists(C, t)
    BY <2>1 DEF Full
  <2>4. {C[i] : i \in 1 .. Len(C)} = Registered(t)
    BY <2>3 DEF Lists
  <2>5. \A i, j \in 1 .. Len(C) : i < j => C[i] > C[j]
    BY <2>3 DEF Lists
  <2> QED
    BY <2>1, <2>2, <2>4, <2>5
<1>2. IInv /\ CInv => ChainLive
  BY <1>1 DEF ChainLive
<1> QED
  BY <1>2, Invariance, ChainInvariance, PTL

(* The unwinding loop meets the frame it looks for before the list ends    *)
(* (w2kseh64.py 184-204).                                                  *)
THEOREM UnwindsEnd == Spec => []UnwindEnds
<1>1. CInv => UnwindEnds
  BY DEF CInv, ChainOK, UnwindEnds
<1> QED
  BY <1>1, ChainInvariance, PTL

=============================================================================
