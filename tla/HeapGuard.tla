------------------------------ MODULE HeapGuard ------------------------------
(***************************************************************************)
(* The option --heapguard of the step-over tracer (dbg_trace.py 324-330,   *)
(* 629-638 and 756-771): a ledger of the heap blocks of the program, kept  *)
(* from what the tracer sees at the border of the image.  A heap call is   *)
(* noted when it leaves the image, with its size in pending_alloc; the     *)
(* pointer it returned is read from rax at the next single step inside.    *)
(*                                                                         *)
(* Composed with StepTracer: each action here is one of that module with   *)
(* what it does to the heap or to the ledger beside it.  The DLLs allocate *)
(* and free as well, which the tracer does not see: a call of malloc is a  *)
(* call of no heap function to it.  There is one thread, and DLLs do not   *)
(* call back: a limit of this module.                                      *)
(***************************************************************************)
EXTENDS StepTracer

CONSTANTS
  Blocks, Sizes     \* where a block may be, what sizes are asked for

None == 0           \* no size: a block that is free, or not in the ledger
Null == "null"

ASSUME HeapAssumption ==
  /\ Threads = {Main} /\ ~Reentrant
  /\ Sizes \subseteq Nat \ {None}
  /\ Null \notin Blocks

VARIABLES
  \* the debuggee
  heap,           \* the size of each block that is allocated
  rax,            \* a block or NULL, in the context of the main thread
  request,        \* what the call under way asks of the heap
  due,            \* history: the block of an allocation that has returned,
                  \* until the step after the return is handled
  unseen,         \* history: the blocks of which the tracer missed something
  \* the tracer, under its own names
  live_allocs, freed_blocks, pending_alloc

process == <<heap, rax, request, due, unseen>>
ledger == <<live_allocs, freed_blocks, pending_alloc>>
guarded == <<vars, process, ledger>>

Idle == [fn |-> "none"]
Requests ==
  {Idle}
  \union [fn : {"alloc"}, size : Sizes]
  \union [fn : {"realloc"}, block : Blocks, size : Sizes]
  \union [fn : {"free"}, block : Blocks]

HeapTypeOK ==
  /\ heap \in [Blocks -> Sizes \union {None}]
  /\ rax \in Blocks \union {Null}
  /\ request \in Requests
  /\ due \subseteq Blocks
  /\ unseen \subseteq Blocks
  /\ live_allocs \in [Blocks -> Sizes \union {None}]
  /\ freed_blocks \subseteq Blocks
  /\ pending_alloc \in Sizes \union {None}

HeapInit ==
  /\ Init
  /\ heap = [p \in Blocks |-> None]
  /\ rax = Null
  /\ request = Idle
  /\ due = {}
  /\ unseen = {}
  /\ live_allocs = [p \in Blocks |-> None]
  /\ freed_blocks = {}
  /\ pending_alloc = None

-----------------------------------------------------------------------------
(* The debuggee.  The program keeps the rules of the heap: it frees and    *)
(* reallocates only blocks that it has.                                    *)

Legal(r) == r.fn \in {"realloc", "free"} => heap[r.block] # None

(* From the image into a DLL, perhaps to allocate or free.  The pointer of *)
(* an allocation that returned to this very instruction is not noted.      *)
CallOut ==
  /\ Ahead(Main)
  /\ Jump(Main) \/ Call(Main)
  /\ rip'[Main] \in DllCode
  /\ request' \in {r \in Requests : Legal(r)}
  /\ due' = {}
  /\ unseen' = unseen \union due
  /\ UNCHANGED <<heap, rax, ledger>>

(* Any other instruction of the image, the first after a heap call too.    *)
Inside ==
  /\ Ahead(Main)
  /\ \/ (Jump(Main) \/ Call(Main)) /\ rip'[Main] \notin DllCode
     \/ Ret(Main)
  /\ rax' \in Blocks \union {Null}
  /\ UNCHANGED <<heap, request, due, unseen, ledger>>

(* A DLL, called for anything else, allocates or frees a block by itself.  *)
DllHeap ==
  /\ Running(Main) /\ InDll(Main)
  /\ request = Idle
  /\ \E p \in Blocks :
       /\ \/ heap[p] = None /\ \E n \in Sizes : heap' = [heap EXCEPT ![p] = n]
          \/ heap[p] # None /\ heap' = [heap EXCEPT ![p] = None]
       /\ unseen' = unseen \union {p}
  /\ UNCHANGED <<vars, rax, request, due, ledger>>

(* What the heap makes of a request, and the value it returns.  A block    *)
(* that the image has freed is known to be free again.                     *)
Served(r) ==
  \/ /\ r.fn = "alloc"
     /\ \E p \in Blocks :
          /\ heap[p] = None
          /\ heap' = [heap EXCEPT ![p] = r.size]
          /\ rax' = p
          /\ due' = {p}
     /\ UNCHANGED unseen
  \/ /\ r.fn = "realloc"
     /\ \E p \in Blocks :
          /\ p = r.block \/ heap[p] = None
          /\ heap' = [heap EXCEPT ![r.block] = None, ![p] = r.size]
          /\ rax' = p
          /\ due' = {p}
     /\ unseen' = unseen \ {r.block}
  \/ /\ r.fn = "free"
     /\ heap' = [heap EXCEPT ![r.block] = None]
     /\ rax' = Null
     /\ unseen' = unseen \ {r.block}
     /\ UNCHANGED due
  \/ /\ r.fn = "none"
     /\ rax' \in Blocks \union {Null}
     /\ UNCHANGED <<heap, due, unseen>>

(* NULL: a block that was to be moved stays, though the ledger let it go.  *)
Refused(r) ==
  /\ r.fn \in {"alloc", "realloc"}
  /\ rax' = Null
  /\ unseen' = IF r.fn = "realloc" THEN unseen \union {r.block} ELSE unseen
  /\ UNCHANGED <<heap, due>>

ReturnIn ==
  /\ InDll(Main)
  /\ Ret(Main)
  /\ Served(request) \/ Refused(request)
  /\ request' = Idle
  /\ UNCHANGED ledger

Elsewhere ==
  /\ \/ LoadDll \/ LoaderBreak \/ StartMain
     \/ DllStep(Main) \/ HitInt3(Main)
     \/ Benign(Main) \/ Fault(Main) \/ Exit(Main)
  /\ UNCHANGED <<process, ledger>>

-----------------------------------------------------------------------------
(* The tracer.                                                             *)

(* Mutant: an address that is handed out again stays among the freed. *)
CaptureKeepsFreed ==
  /\ pending_alloc' = None
  /\ IF pending_alloc = None \/ rax = Null
       THEN UNCHANGED live_allocs
       ELSE live_allocs' = [live_allocs EXCEPT ![rax] = pending_alloc]
  /\ UNCHANGED freed_blocks

(* rax is the pointer of an allocation that returned, unless it is NULL.   *)
Capture ==
  /\ pending_alloc' = None
  /\ IF pending_alloc = None \/ rax = Null
       THEN UNCHANGED <<live_allocs, freed_blocks>>
       ELSE /\ live_allocs' = [live_allocs EXCEPT ![rax] = pending_alloc]
            /\ freed_blocks' = freed_blocks \ {rax}

(* A block the ledger has moves to the freed ones; others are ignored.     *)
Release(p) ==
  IF live_allocs[p] = None
    THEN UNCHANGED <<live_allocs, freed_blocks>>
    ELSE /\ live_allocs' = [live_allocs EXCEPT ![p] = None]
         /\ freed_blocks' = freed_blocks \union {p}

(* What is noted at the first step outside: _resolve_addr finds the name   *)
(* of the function in the module list, or finds nothing.                   *)
Record ==
  LET known == \E m \in modules : m[1] = rip[Main]
      fn == IF known THEN request.fn ELSE "none"
  IN CASE fn = "none" -> UNCHANGED ledger
       [] fn = "free" -> Release(request.block) /\ UNCHANGED pending_alloc
       [] fn = "realloc" ->
            Release(request.block) /\ pending_alloc' = request.size
       [] fn = "alloc" ->
            /\ pending_alloc' = request.size
            /\ UNCHANGED <<live_allocs, freed_blocks>>

(* The size in pending_alloc is noted for whatever is in rax by then.      *)
StepIn ==
  /\ StepInImage(Main)
  /\ Capture
  /\ due' = {}
  /\ unseen' = IF pending_alloc = None THEN unseen
               ELSE IF due = {rax} THEN unseen \ due
               ELSE unseen \union due \union ({rax} \ {Null})
  /\ UNCHANGED <<heap, rax, request>>

StepOut ==
  /\ WildBranch(Main) \/ StepOver(Main) \/ RunFree(Main)
  /\ Record
  /\ UNCHANGED process

Others ==
  /\ \/ CreateProcess(Main) \/ LoadDllEvent(Main) \/ ExitProcess(Main)
     \/ FirstBp(Main) \/ EntryBp(Main) \/ OneShotBp(Main) \/ ForeignBp(Main)
     \/ PassCode(Main) \/ RealException(Main) \/ Timeout
  /\ UNCHANGED <<process, ledger>>

-----------------------------------------------------------------------------
HeapNext ==
  \/ CallOut \/ Inside \/ DllHeap \/ ReturnIn \/ Elsewhere
  \/ StepIn \/ StepOut \/ Others

HeapSpec == HeapInit /\ [][HeapNext]_guarded

-----------------------------------------------------------------------------
(* What the ledger has of a block is what the heap has: the size, and not  *)
(* among the freed ones while it is in use.                                *)
Agrees(p) ==
  /\ live_allocs[p] = heap[p]
  /\ p \in freed_blocks => heap[p] = None

(* Inside the image the ledger errs about a block only after it missed     *)
(* something of that block, and is right about it again from the block's   *)
(* next allocation or free that it sees, whatever became of others.  The   *)
(* tracer misses what a DLL does by itself, a reallocation that fails, and *)
(* the pointer of an allocation when the instruction after it changes rax  *)
(* or leaves the image; it then notes the size for what rax holds, which   *)
(* counts as missed for that block too (dbg_trace.py 629-638, 756-771).    *)
LedgerErrsPerBlock ==
  entry_rva # Absent /\ verdict = "none" /\ event[Main] = NoEvent
  /\ Ahead(Main)
  =>
    \A p \in Blocks \ (unseen \union due) : Agrees(p)

(* What "the pointer returned by a just-completed alloc (rax holds it on   *)
(* the first main insn after return)" (dbg_trace.py 630-631) makes of the  *)
(* ledger; it is not so in the code.                                       *)
LedgerFaithful ==
  entry_rva # Absent /\ verdict = "none" /\ event[Main] = NoEvent
  /\ Ahead(Main) /\ due = {}
  =>
    \A p \in Blocks : Agrees(p)
=============================================================================
