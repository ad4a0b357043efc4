------------------------------- MODULE SetJmp -------------------------------
(***************************************************************************)
(* _setjmp3, longjmp and _seh_longjmp_unwind of w2kshim64.dll (w2kseh64.py *)
(* 87-204; the shared slot is laid out by x86x64/shim/builder.py 230-233). *)
(*                                                                         *)
(* The VC6 jump buffer has room for eight registers of 64 bits.  The three *)
(* that do not fit go to one slot of the shim's data section, the same for *)
(* every buffer and every thread: each store to it and each load from it   *)
(* is a step of its own.                                                   *)
(*                                                                         *)
(* The translated program calls, returns, registers exception frames and   *)
(* keeps the C rules: a buffer belongs to one thread and is jumped to only *)
(* while the function that set it has not returned.  It may also jump to a *)
(* buffer that was never set, which longjmp traps.                         *)
(***************************************************************************)
EXTENDS Naturals, Sequences

CONSTANTS
  Threads, Buffers,
  Home,        \* Home[b]: the thread that uses b
  Work,        \* Work[t]: what the code of t may put in its registers
  NoBuffer,    \* no buffer: the thread is in none of the stubs
  MaxDepth     \* bound: MaxDepth[t] is how deep the calls of t nest

ASSUME ConstAssumption ==
  /\ Home \in [Buffers -> Threads]
  /\ NoBuffer \notin Buffers
  /\ MaxDepth \in [Threads -> Nat \ {0}]

VARIABLES
  regs,     \* regs[t][r]: the nonvolatile registers
  frames,   \* frames[t]: what each active function of t will restore
  chain,    \* chain[t]: the list at gs:[0], the registered frames, last first
  buf,      \* buf[b]: the jump buffer
  slot,     \* slot[r]: the data section's copy of r12, r14, r15
  pc,       \* where t is in the three stubs, "run" outside them
  arg,      \* arg[t]: the buffer t passed to the stub it is in
  next,     \* next[t]: the shared register its stub has reached
  rax,      \* rax[t]: the result t's stub will return
  saved,    \* history: what t had when it set b; depth 0 once it returned
  alone     \* history: no other setjmp has run since (or beside) that of b

vars == <<regs, frames, chain, buf, slot, pc, arg, next, rax, saved, alone>>
history == <<saved, alone>>

(* The registers that go to the shared slot, in the order of the stores    *)
(* (mutant: r13 among them, as the docstring at 90-95 says it once was).   *)
SpillOrderWithR13 == <<"r13", "r12", "r14", "r15">>

SpillOrder == <<"r12", "r14", "r15">>

Regs == {"rbx", "r12", "r13", "r14", "r15"}   \* rbx for rbp, rdi, rsi too
Shared == {SpillOrder[i] : i \in DOMAIN SpillOrder}
Private == Regs \ Shared

Vals == {0} \union UNION {Work[t] : t \in Threads}

Depth(t) == Len(frames[t])
Unregistered == <<0>>               \* no list of frames: these count from 1
Registered(t) == {d \in DOMAIN frames[t] : frames[t][d].link # Unregistered}
Labels == {"run", "set_spill", "unwound", "astray", "jmp_spill", "jmp_last",
           "resumed", "trap"}

TypeOK ==
  /\ regs \in [Threads -> [Regs -> Vals]]
  /\ frames \in [Threads -> Seq([regs : [Regs -> Vals], link : Seq(Nat)])]
  /\ \A t \in Threads : Depth(t) \in 1 .. MaxDepth[t]
  /\ chain \in [Threads -> Seq(Nat)]
  /\ buf \in [Buffers -> [regs : [Private -> Vals], depth : Nat,
                          link : Seq(Nat)]]
  /\ slot \in [Shared -> Vals]
  /\ pc \in [Threads -> Labels]
  /\ arg \in [Threads -> Buffers \union {NoBuffer}]
  /\ next \in [Threads -> DOMAIN SpillOrder]
  /\ rax \in [Threads -> {0, 1, 2}]
  /\ saved \in [Buffers -> [regs : [Regs -> Vals], depth : Nat,
                            link : Seq(Nat)]]
  /\ alone \in [Buffers -> BOOLEAN]

Zeros(R) == [r \in R |-> 0]
Dead == [regs |-> Zeros(Regs), depth |-> 0, link |-> <<>>]

Init ==
  /\ regs = [t \in Threads |-> Zeros(Regs)]
  /\ frames = [t \in Threads |->
                 << [regs |-> Zeros(Regs), link |-> Unregistered] >>]
  /\ chain = [t \in Threads |-> <<>>]
  /\ buf = [b \in Buffers |->
              [regs |-> Zeros(Private), depth |-> 0, link |-> <<>>]]
  /\ slot = Zeros(Shared)
  /\ pc = [t \in Threads |-> "run"]
  /\ arg = [t \in Threads |-> NoBuffer]
  /\ next = [t \in Threads |-> 1]
  /\ rax = [t \in Threads |-> 0]
  /\ saved = [b \in Buffers |-> Dead]
  /\ alone = [b \in Buffers |-> FALSE]

-----------------------------------------------------------------------------
(* The program.                                                            *)

At(t, label) == pc[t] = label
Goto(t, label) == pc' = [pc EXCEPT ![t] = label]
Stub == <<buf, slot, pc, arg, next, rax, alone>>

(* It computes: every register gets another value.                         *)
Compute(t) ==
  /\ At(t, "run")
  /\ \E v \in Work[t] : regs' = [regs EXCEPT ![t] = [r \in Regs |-> v]]
  /\ UNCHANGED <<frames, chain, Stub, saved>>

(* A prologue: the caller's registers are kept, gs:[0] perhaps extended.   *)
Enter(t, registers) ==
  /\ At(t, "run")
  /\ Depth(t) < MaxDepth[t]
  /\ frames' = [frames EXCEPT ![t] =
       Append(@, [regs |-> regs[t],
                  link |-> IF registers THEN chain[t] ELSE Unregistered])]
  /\ chain' = IF registers
                THEN [chain EXCEPT ![t] = <<Depth(t) + 1>> \o @] ELSE chain
  /\ UNCHANGED <<regs, Stub, saved>>

(* The functions deeper than d are gone, and so are the buffers they set.  *)
Bury(t, d) ==
  saved' = [b \in Buffers |->
    IF Home[b] = t /\ saved[b].depth > d THEN Dead ELSE saved[b]]

(* An epilogue.                                                            *)
Leave(t) ==
  /\ At(t, "run")
  /\ Depth(t) > 1
  /\ LET f == frames[t][Depth(t)] IN
       /\ regs' = [regs EXCEPT ![t] = f.regs]
       /\ chain' = IF f.link = Unregistered
                     THEN chain ELSE [chain EXCEPT ![t] = f.link]
  /\ frames' = [frames EXCEPT ![t] = SubSeq(@, 1, Depth(t) - 1)]
  /\ Bury(t, Depth(t) - 1)
  /\ UNCHANGED Stub

-----------------------------------------------------------------------------
(* _setjmp3.                                                               *)

(* The stores to the buffer, which no other thread looks at.               *)
Setjmp(t, b) ==
  /\ At(t, "run")
  /\ Home[b] = t
  /\ buf' = [buf EXCEPT ![b] = [regs |-> [r \in Private |-> regs[t][r]],
                                depth |-> Depth(t), link |-> chain[t]]]
  /\ saved' = [saved EXCEPT ![b] = [regs |-> regs[t],
                                    depth |-> Depth(t), link |-> chain[t]]]
  /\ alone' = [c \in Buffers |->
                 c = b /\ \A u \in Threads : pc[u] # "set_spill"]
  /\ arg' = [arg EXCEPT ![t] = b]
  /\ Goto(t, "set_spill")
  /\ UNCHANGED <<regs, frames, chain, slot, next, rax>>

(* Mutant: the last register forgotten. *)
LastOneEarly(t) == next[t] = Len(SpillOrder) - 1

Last(t) == next[t] = Len(SpillOrder)
Advance(t) == next' = [next EXCEPT ![t] = IF Last(t) THEN 1 ELSE @ + 1]
Return(t) == Goto(t, "run") /\ arg' = [arg EXCEPT ![t] = NoBuffer]

(* mov [rax + 8i], r; after the last one xor eax, eax; ret.                *)
SpillStore(t) ==
  /\ At(t, "set_spill")
  /\ LET r == SpillOrder[next[t]] IN slot' = [slot EXCEPT ![r] = regs[t][r]]
  /\ Advance(t)
  /\ IF Last(t) THEN Return(t) ELSE UNCHANGED <<pc, arg>>
  /\ UNCHANGED <<regs, frames, chain, buf, rax, history>>

-----------------------------------------------------------------------------
(* _seh_longjmp_unwind: gs:[0] is followed until it is what the buffer     *)
(* holds. A list that ends before is read past its end: it ends in the 0   *)
(* of the thread's start, and the loop looks for -1.                       *)
Unwind(t, b) ==
  /\ At(t, "run")
  /\ Home[b] = t
  /\ saved[b].depth # 0
  /\ arg' = [arg EXCEPT ![t] = b]
  /\ LET rest(k) == SubSeq(chain[t], k, Len(chain[t])) IN
       IF \E k \in 1 .. Len(chain[t]) + 1 : rest(k) = buf[b].link
         THEN chain' = [chain EXCEPT ![t] = buf[b].link] /\ Goto(t, "unwound")
         ELSE Goto(t, "astray") /\ UNCHANGED chain
  /\ UNCHANGED <<regs, frames, buf, slot, next, rax, history>>

-----------------------------------------------------------------------------
(* longjmp(b, v), with or without the unwinding before it.                 *)
Longjmp(t, b, v) ==
  /\ Home[b] = t
  /\ \/ At(t, "run") /\ (saved[b].depth # 0 \/ buf[b].depth = 0)
     \/ At(t, "unwound") /\ arg[t] = b
  /\ regs' = [regs EXCEPT ![t] =
       [r \in Regs |-> IF r \in Private THEN buf[b].regs[r] ELSE @[r]]]
  /\ rax' = [rax EXCEPT ![t] = v]
  /\ arg' = [arg EXCEPT ![t] = b]
  /\ Goto(t, "jmp_spill")
  /\ UNCHANGED <<frames, chain, buf, slot, next, history>>

(* mov r, [rax + 8i].                                                      *)
SpillLoad(t) ==
  /\ At(t, "jmp_spill")
  /\ LET r == SpillOrder[next[t]] IN
       regs' = [regs EXCEPT ![t] = [@ EXCEPT ![r] = slot[r]]]
  /\ Advance(t)
  /\ IF Last(t) THEN Goto(t, "jmp_last") ELSE UNCHANGED pc
  /\ UNCHANGED <<frames, chain, buf, slot, arg, rax, history>>

(* Mutant: gs:[0] loaded from the word behind, which is zero. *)
JumpClearsChain(t) ==
  /\ At(t, "jmp_last")
  /\ chain' = [chain EXCEPT ![t] = <<>>]
  /\ buf[arg[t]].depth # 0
  /\ rax' = [rax EXCEPT ![t] = IF @ = 0 THEN 1 ELSE @]
  /\ frames' = [frames EXCEPT ![t] = SubSeq(@, 1, buf[arg[t]].depth)]
  /\ Bury(t, buf[arg[t]].depth)
  /\ Goto(t, "resumed")
  /\ UNCHANGED <<regs, buf, slot, arg, next, alone>>

(* Mutant: gs:[0] not restored. *)
JumpKeepsChain(t) ==
  /\ At(t, "jmp_last")
  /\ buf[arg[t]].depth # 0
  /\ rax' = [rax EXCEPT ![t] = IF @ = 0 THEN 1 ELSE @]
  /\ frames' = [frames EXCEPT ![t] = SubSeq(@, 1, buf[arg[t]].depth)]
  /\ Bury(t, buf[arg[t]].depth)
  /\ Goto(t, "resumed")
  /\ UNCHANGED <<regs, chain, buf, slot, arg, next, alone>>

(* gs:[0] is restored first, even from a buffer of zeros, whose RIP of 0   *)
(* is then trapped; else the return value is made nonzero and RSP, RIP set.*)
Jump(t) ==
  /\ At(t, "jmp_last")
  /\ chain' = [chain EXCEPT ![t] = buf[arg[t]].link]
  /\ IF buf[arg[t]].depth = 0
       THEN Goto(t, "trap") /\ UNCHANGED <<frames, rax, saved>>
       ELSE /\ rax' = [rax EXCEPT ![t] = IF @ = 0 THEN 1 ELSE @]
            /\ frames' = [frames EXCEPT ![t] = SubSeq(@, 1, buf[arg[t]].depth)]
            /\ Bury(t, buf[arg[t]].depth)
            /\ Goto(t, "resumed")
  /\ UNCHANGED <<regs, buf, slot, arg, next, alone>>

(* The code behind the call of setjmp goes on.                             *)
Resume(t) ==
  /\ At(t, "resumed")
  /\ Return(t)
  /\ rax' = [rax EXCEPT ![t] = 0]
  /\ UNCHANGED <<regs, frames, chain, buf, slot, next, history>>

-----------------------------------------------------------------------------
Program(t) ==
  \/ Compute(t) \/ Leave(t) \/ Resume(t)
  \/ \E registers \in BOOLEAN : Enter(t, registers)

Runtime(t) ==
  \/ SpillStore(t) \/ SpillLoad(t) \/ Jump(t)
  \/ \E b \in Buffers : Setjmp(t, b) \/ Unwind(t, b)
  \/ \E b \in Buffers, v \in {0, 2} : Longjmp(t, b, v)

Next == \E t \in Threads : Program(t) \/ Runtime(t)

Spec == Init /\ [][Next]_vars

-----------------------------------------------------------------------------
(* A longjmp comes back to the function that set its buffer, with gs:[0]   *)
(* and the registers the buffer has room for as they were, r13 among them, *)
(* whatever other setjmps ran meanwhile, and with a nonzero result         *)
(* (w2kseh64.py 87-169).                                                   *)
FrameRestored ==
  \A t \in Threads :
    pc[t] = "resumed" =>
      LET s == saved[arg[t]] IN
      /\ Depth(t) = s.depth
      /\ chain[t] = s.link
      /\ \A r \in {"rbx", "r13"} : regs[t][r] = s.regs[r]
      /\ rax[t] # 0

(* r12, r14 and r15 come back too if no other setjmp wrote the shared slot *)
(* since, or while, this one did (w2kseh64.py 115-119 and 142-145).        *)
AloneRestored ==
  \A t \in Threads :
    pc[t] = "resumed" /\ alone[arg[t]] =>
      \A r \in Regs : regs[t][r] = saved[arg[t]].regs[r]

(* Every longjmp restores every nonvolatile register (README.md line 55).  *)
RegistersPreserved ==
  \A t \in Threads :
    pc[t] = "resumed" =>
      \A r \in Regs : regs[t][r] = saved[arg[t]].regs[r]

(* gs:[0] lists exactly the registered frames of the functions that have   *)
(* not returned, innermost first: no exception is dispatched to a frame    *)
(* that is gone (w2kseh64.py 110-111 and 147-148).                         *)
ChainLive ==
  \A t \in Threads :
    pc[t] \in {"run", "set_spill", "resumed"} =>
      /\ {chain[t][i] : i \in DOMAIN chain[t]} = Registered(t)
      /\ \A i, j \in DOMAIN chain[t] : i < j => chain[t][i] > chain[t][j]

(* The unwinding loop always meets the frame it looks for (184-204).       *)
UnwindEnds == \A t \in Threads : pc[t] # "astray"
=============================================================================
