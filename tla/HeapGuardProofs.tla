-------------------------- MODULE HeapGuardProofs --------------------------
(***************************************************************************)
(* Proofs about HeapGuard for any heap, any image and any DLLs: what is    *)
(* proved of the tracer holds with the ledger beside it, and the ledger    *)
(* errs about a block only after the tracer missed something of it.        *)
(***************************************************************************)
EXTENDS HeapGuard, TracerProofs

(* The ledger has of every block what the heap has, these aside.           *)
AgreeOff(S) == \A p \in Blocks \ S : Agrees(p)

(* The pointer of an allocation that has returned is not noted yet, but    *)
(* its size is known.                                                      *)
Owing ==
  \/ due = {}
  \/ /\ pending_alloc # None
     /\ \E p \in Blocks : due = {p} /\ heap[p] = pending_alloc

(* The ledger is ahead of the heap by what the call under way will free,   *)
(* and knows the size that it will allocate.                               *)
Noted(r) ==
  /\ \A p \in Blocks \ unseen :
       /\ live_allocs[p] = IF r.fn \in {"realloc", "free"} /\ p = r.block
                             THEN None ELSE heap[p]
       /\ p \in freed_blocks => live_allocs[p] = None
  /\ r.fn \in {"realloc", "free"} => live_allocs[r.block] = None
  /\ r.fn \in {"alloc", "realloc"} => pending_alloc = r.size

(* In the image the pointer is owed until the step after the return; in    *)
(* system code that will return to the image the call is noted.            *)
Kept ==
  /\ rip[Main] \in MainCode \union {Skid} =>
       request = Idle /\ AgreeOff(unseen \union due) /\ Owing
  /\ rip[Main] \in DllCode /\ InMain(ReturnAddress) =>
       /\ due = {}
       /\ IF Pending = "step"
            THEN AgreeOff(unseen) /\ Legal(request) /\ InDll(Main)
            ELSE Noted(request)

(* Before the entry the image has asked for nothing.                       *)
Untouched == AgreeOff(unseen) /\ due = {} /\ request = Idle

Booked == entry_rva # Absent => IF tracing THEN Kept ELSE Untouched

(* Every DLL that is mapped is in the list, once its event was handled.    *)
Listed ==
  IF Apilog
    THEN \A d \in loaded : \/ \E m \in modules : m[1] = d[1]
                           \/ event[Main] = <<"load", d[1]>>
    ELSE modules = {}

GInv == LInv /\ HeapTypeOK /\ Booked /\ Listed

-----------------------------------------------------------------------------
(* Beside the ledger the tracer does what it does without.                 *)

LEMMA Beside == [HeapNext]_guarded => [Next]_vars
<1> SUFFICES ASSUME [HeapNext]_guarded PROVE [Next]_vars
  OBVIOUS
<1>1. Main \in Threads
  BY ConstAssumption
<1>2. CASE CallOut \/ Inside \/ ReturnIn
  BY <1>1, <1>2 DEF CallOut, Inside, ReturnIn, Next, Program
<1>3. CASE Elsewhere
  BY <1>1, <1>3 DEF Elsewhere, Next, Program
<1>4. CASE StepIn \/ StepOut \/ Others
  BY <1>1, <1>4 DEF StepIn, StepOut, Others, Next, Handle
<1>5. CASE DllHeap \/ UNCHANGED guarded
  BY <1>5 DEF DllHeap, guarded
<1>6. QED
  BY <1>2, <1>3, <1>4, <1>5 DEF HeapNext

(* With the ledger the tracer is the one StepTracer specifies, so all that *)
(* is proved of that holds here (dbg_trace.py 629-638 and 756-771 are in   *)
(* the loop that 445-848 is).                                              *)
THEOREM TracerWithLedger == HeapSpec => Spec
<1>1. HeapInit => Init
  BY DEF HeapInit
<1>2. QED
  BY <1>1, Beside, PTL DEF HeapSpec, Spec

LEMMA One == Threads = {Main} /\ Reentrant = FALSE /\ Main \in Threads
  BY HeapAssumption, ConstAssumption

-----------------------------------------------------------------------------
(* Types.                                                                  *)

LEMMA RequestFacts ==
  ASSUME NEW r \in Requests
  PROVE /\ r.fn \in {"none", "alloc", "realloc", "free"}
        /\ r.fn \in {"alloc", "realloc"} => r.size \in Sizes
        /\ r.fn \in {"realloc", "free"} => r.block \in Blocks
        /\ r.fn = "none" => r = Idle
  BY DEF Requests, Idle

LEMMA SizeFacts ==
  /\ None \notin Sizes /\ Null \notin Blocks /\ Idle \in Requests
  /\ Idle.fn = "none"
  BY HeapAssumption DEF None, Requests, Idle

LEMMA ServedType ==
  ASSUME HeapTypeOK, Served(request) \/ Refused(request)
  PROVE /\ heap' \in [Blocks -> Sizes \union {None}]
        /\ rax' \in Blocks \union {Null}
        /\ due' \subseteq Blocks /\ unseen' \subseteq Blocks
<1> USE RequestFacts DEF HeapTypeOK
<1>1. CASE request.fn = "alloc"
  BY <1>1 DEF Served, Refused
<1>2. CASE request.fn = "realloc"
  BY <1>2 DEF Served, Refused
<1>3. CASE request.fn = "free"
  BY <1>3 DEF Served, Refused
<1>4. CASE request.fn = "none"
  BY <1>4 DEF Served, Refused
<1>5. QED
  BY <1>1, <1>2, <1>3, <1>4

LEMMA ReleaseType ==
  ASSUME HeapTypeOK, NEW p \in Blocks, Release(p)
  PROVE /\ live_allocs' \in [Blocks -> Sizes \union {None}]
        /\ freed_blocks' \subseteq Blocks
  BY DEF HeapTypeOK, Release

LEMMA RecordType ==
  ASSUME HeapTypeOK, Record
  PROVE /\ live_allocs' \in [Blocks -> Sizes \union {None}]
        /\ freed_blocks' \subseteq Blocks
        /\ pending_alloc' \in Sizes \union {None}
<1> DEFINE fn == IF \E m \in modules : m[1] = rip[Main] THEN request.fn ELSE "none"
<1>0. request \in Requests
  BY DEF HeapTypeOK
<1>1. fn \in {"none", "alloc", "realloc", "free"}
  BY <1>0, RequestFacts
<1>2. CASE fn = "none"
  BY <1>2 DEF Record, ledger, HeapTypeOK
<1>3. CASE fn = "free"
  <2>1. request.block \in Blocks
    BY <1>0, <1>3, RequestFacts
  <2>2. Release(request.block) /\ UNCHANGED pending_alloc
    BY <1>3 DEF Record
  <2>3. QED
    BY <2>1, <2>2, ReleaseType DEF HeapTypeOK
<1>4. CASE fn = "realloc"
  <2>1. request.block \in Blocks /\ request.size \in Sizes
    BY <1>0, <1>4, RequestFacts
  <2>2. Release(request.block) /\ pending_alloc' = request.size
    BY <1>4 DEF Record
  <2>3. QED
    BY <2>1, <2>2, ReleaseType DEF HeapTypeOK
<1>5. CASE fn = "alloc"
  <2>1. request.size \in Sizes
    BY <1>0, <1>5, RequestFacts
  <2>2. pending_alloc' = request.size /\ UNCHANGED <<live_allocs, freed_blocks>>
    BY <1>5 DEF Record
  <2>3. QED
    BY <2>1, <2>2 DEF HeapTypeOK
<1>6. QED
  BY <1>1, <1>2, <1>3, <1>4, <1>5

LEMMA HeapTypeStep == HeapTypeOK /\ [HeapNext]_guarded => HeapTypeOK'
<1> SUFFICES ASSUME HeapTypeOK, [HeapNext]_guarded PROVE HeapTypeOK'
  OBVIOUS
<1> USE DEF HeapTypeOK, process, ledger
<1>1. CASE CallOut
  BY <1>1 DEF CallOut
<1>2. CASE Inside
  BY <1>2 DEF Inside
<1>3. CASE ReturnIn
  BY <1>3, ServedType, SizeFacts DEF ReturnIn
<1>4. CASE Elsewhere \/ Others
  BY <1>4 DEF Elsewhere, Others
<1>5. CASE StepIn
  BY <1>5 DEF StepIn, Capture
<1>6. CASE StepOut
  BY <1>6, RecordType DEF StepOut
<1>7. CASE DllHeap
  BY <1>7 DEF DllHeap
<1>8. CASE UNCHANGED guarded
  BY <1>8 DEF guarded
<1>9. QED
  BY <1>1, <1>2, <1>3, <1>4, <1>5, <1>6, <1>7, <1>8 DEF HeapNext

(* The state of the heap and of the ledger keeps its type.                 *)
THEOREM HeapTyping == HeapSpec => []HeapTypeOK
<1>1. HeapInit => HeapTypeOK
  BY SizeFacts DEF HeapInit, HeapTypeOK
<1>2. QED
  BY <1>1, HeapTypeStep, PTL DEF HeapSpec

-----------------------------------------------------------------------------
(* The module list.                                                        *)

LEMMA ListedStep ==
  ASSUME LInv, Listed, [Next]_vars
  PROVE Listed'
<1> USE One DEF LInv, IInv
<1>0. TypeOK
  OBVIOUS
<1>a. ASSUME UNCHANGED <<modules, loaded>>,
             \A d \in loaded : event[Main] = <<"load", d[1]>> => event' = event
      PROVE Listed'
  BY <1>a DEF Listed
<1>b. ASSUME Running(Main), NEW d \in loaded PROVE event[Main] # <<"load", d[1]>>
  BY <1>b DEF Running, NoEvent
<1>c. ASSUME Pending # "load", NEW d \in loaded PROVE event[Main] # <<"load", d[1]>>
  BY <1>c DEF Pending
<1>1. CASE \/ Jump(Main) \/ Call(Main) \/ Ret(Main) \/ DllStep(Main)
           \/ StartMain \/ LoaderBreak \/ HitInt3(Main)
           \/ Benign(Main) \/ Fault(Main) \/ Exit(Main)
  <2>1. Running(Main) /\ UNCHANGED <<modules, loaded>>
    BY <1>1 DEF Jump, Call, Ret, DllStep, StartMain, Arrive, LoaderBreak, HitInt3,
                Benign, Fault, Exit, tracer, log
  <2>2. QED
    BY <1>a, <1>b, <2>1
<1>2. CASE LoadDll
  <2>1. PICK d \in Dlls \ loaded :
          loaded' = loaded \union {d} /\ Raise(Main, "load", d[1])
    BY <1>2 DEF LoadDll
  <2>2. event'[Main] = <<"load", d[1]>>
    BY <1>0, <2>1 DEF Raise, TypeOK
  <2>3. Running(Main) /\ modules' = modules
    BY <1>2 DEF LoadDll, tracer, log
  <2>4. QED
    BY <1>b, <2>1, <2>2, <2>3 DEF Listed
<1>3. CASE LoadDllEvent(Main)
  <2>1. /\ modules' = IF Apilog
                        THEN modules \union {d \in Dlls : d[1] = event[Main][2]}
                        ELSE modules
        /\ loaded' = loaded
    BY <1>3 DEF LoadDllEvent, Addr, outside
  <2>2. ASSUME Apilog, NEW d \in loaded PROVE \E m \in modules' : m[1] = d[1]
    <3>1. CASE event[Main] = <<"load", d[1]>>
      <4>1. d \in Dlls /\ event[Main][2] = d[1]
        BY <1>0, <3>1 DEF TypeOK
      <4>2. d \in modules'
        BY <2>1, <2>2, <4>1
      <4>3. QED
        BY <4>2
    <3>2. CASE \E m \in modules : m[1] = d[1]
      BY <2>1, <3>2
    <3>3. QED
      BY <2>2, <3>1, <3>2 DEF Listed
  <2>3. QED
    BY <2>1, <2>2 DEF Listed
<1>4. CASE \/ CreateProcess(Main) \/ FirstBp(Main) \/ EntryBp(Main)
           \/ OneShotBp(Main) \/ ForeignBp(Main) \/ StepInImage(Main)
           \/ StepOver(Main) \/ RunFree(Main) \/ PassCode(Main)
  <2>1. Pending # "load" /\ UNCHANGED <<modules, loaded>>
    BY <1>4 DEF CreateProcess, FirstBp, EntryBp, OneShotBp, ForeignBp,
                StepInImage, StepOver, RunFree, PassCode, Reported, Pending, log,
                outside
  <2>2. QED
    BY <1>a, <1>c, <2>1
<1>5. CASE \/ ExitProcess(Main) \/ WildBranch(Main) \/ RealException(Main)
           \/ Timeout \/ UNCHANGED vars
  <2>1. UNCHANGED <<modules, loaded, event>>
    BY <1>5 DEF ExitProcess, WildBranch, RealException, Timeout, Stop, log, outside,
                vars, debuggee, tracer
  <2>2. QED
    BY <1>a, <2>1
<1>6. ~Callback(Main) /\ ~Unwind(Main)
  BY DEF Callback, Unwind
<1>7. QED
  BY <1>1, <1>2, <1>3, <1>4, <1>5, <1>6 DEF Next, Program, Handle

-----------------------------------------------------------------------------
(* The ledger, action by action.                                           *)

Same == UNCHANGED <<process, ledger>>

LEMMA SameFacts ==
  ASSUME Same
  PROVE /\ AgreeOff(unseen)' <=> AgreeOff(unseen)
        /\ AgreeOff(unseen \union due)' <=> AgreeOff(unseen \union due)
        /\ Owing' <=> Owing
        /\ Noted(request)' <=> Noted(request)
        /\ Untouched' <=> Untouched
        /\ request' = request /\ due' = due
  BY DEF Same, process, ledger, AgreeOff, Agrees, Owing, Noted, Untouched

(* Where the thread is once the entry is known and it runs, see LInv.      *)
LEMMA Followed1 ==
  ASSUME LInv, entry_rva # Absent, tracing, Pending # "step"
  PROVE /\ rip[Main] \in MainCode => tf[Main] = TRUE \/ rip[Main] = bp_addr
        /\ rip[Main] \in DllCode => tf[Main] = FALSE
  BY DEF LInv, Known, Following

(* An instruction of the image that runs is single-stepped.                *)
LEMMA Stepped ==
  ASSUME LInv, entry_rva # Absent, Running(Main), Ahead(Main),
         NEW a, NEW frames, Arrive(Main, a, frames)
  PROVE /\ tracing /\ rip[Main] \in MainCode /\ Pending = "none"
        /\ rip'[Main] = a /\ stack'[Main] = frames /\ Pending' = "step"
        /\ entry_rva' = entry_rva /\ tracing' = tracing
<1> USE Apart DEF LInv, IInv
<1>0. TypeOK /\ Pending = "none"
  BY DEF Running, NoEvent, Pending
<1>1. rip[Main] \in MainCode /\ mem[rip[Main]] = "insn"
  BY DEF Ahead, InImage
<1>2. boot = "started" /\ rip[Main] # entry_bp /\ rip[Main] # bp_addr
  BY <1>0, <1>1 DEF Starting, BytesAccounted
<1>3. tracing
  BY <1>0, <1>1, <1>2 DEF Known, Waiting
<1>4. tf[Main]
  BY <1>0, <1>1, <1>2, <1>3, Followed1
<1>5. QED
  BY <1>0, <1>1, <1>3, <1>4, Moves

LEMMA CallOutStep ==
  ASSUME GInv, entry_rva # Absent, CallOut
  PROVE Booked'
<1> USE Apart DEF GInv, LInv, IInv
<1>1. /\ Running(Main) /\ Ahead(Main) /\ rip'[Main] \in DllCode
      /\ Legal(request') /\ due' = {} /\ unseen' = unseen \union due
      /\ UNCHANGED <<heap, live_allocs, freed_blocks>>
    BY DEF CallOut, Jump, Call, ledger
<1>a. PICK a \in Callable : \E frames : Arrive(Main, a, frames)
  BY DEF CallOut, Jump, Call
<1>2. PICK frames : Arrive(Main, a, frames)
  BY <1>a
<1>3. /\ tracing /\ rip[Main] \in MainCode /\ Pending = "none"
      /\ rip'[Main] = a /\ Pending' = "step" /\ tracing' = tracing
  BY <1>1, <1>2, Stepped
<1>4. Kept
  BY <1>3 DEF Booked
<1>5. AgreeOff(unseen)'
  BY <1>1, <1>3, <1>4 DEF Kept, AgreeOff, Agrees
<1>6. Legal(request)'
  BY <1>1 DEF Legal
<1>7. InDll(Main)'
  <2>1. a \in {d[1] : d \in loaded}
    BY <1>1, <1>2, <1>3 DEF Callable, Code
  <2>2. loaded' = loaded
    BY <1>2 DEF Arrive
  <2>3. QED
    BY <1>3, <2>1, <2>2 DEF InDll
<1>8. QED
  BY <1>1, <1>3, <1>5, <1>6, <1>7 DEF Booked, Kept

LEMMA InsideStep ==
  ASSUME GInv, entry_rva # Absent, Inside
  PROVE Booked'
<1> USE Apart DEF GInv, LInv, IInv
<1>1. /\ Running(Main) /\ Ahead(Main)
      /\ UNCHANGED <<heap, request, due, unseen, live_allocs, freed_blocks, pending_alloc>>
    BY DEF Inside, Jump, Call, Ret, ledger
<1>2. PICK a, frames :
        /\ Arrive(Main, a, frames)
        /\ rip'[Main] \in DllCode =>
             stack[Main] # <<>> /\ a = Head(stack[Main]) /\ frames = Tail(stack[Main])
  BY DEF Inside, Jump, Call, Ret
<1>3. /\ tracing /\ rip[Main] \in MainCode /\ Pending = "none"
      /\ rip'[Main] = a /\ stack'[Main] = frames
      /\ Pending' = "step" /\ tracing' = tracing
  BY <1>1, <1>2, Stepped
<1>4. request = Idle /\ AgreeOff(unseen \union due) /\ Owing
  BY <1>3 DEF Booked, Kept
<1>5. request' = Idle /\ AgreeOff(unseen \union due)' /\ Owing'
  BY <1>1, <1>4 DEF AgreeOff, Agrees, Owing
<1>6. a \in DllCode => ~InMain(ReturnAddress')
  <2> SUFFICES ASSUME a \in DllCode PROVE ReturnAddress' = Absent
    BY Places DEF InMain
  <2>1. stack[Main] # <<>> /\ a = Head(stack[Main]) /\ frames = Tail(stack[Main])
    BY <1>2, <1>3
  <2>2. frames = <<>>
    BY <2>1, Outermost
  <2>3. QED
    BY <1>3, <2>2 DEF ReturnAddress
<1>7. QED
  BY <1>3, <1>5, <1>6 DEF Booked, Kept, InMain

(* What DLLs do by themselves is in the history.                           *)
LEMMA DllHeapStep ==
  ASSUME GInv, entry_rva # Absent, DllHeap
  PROVE Booked'
<1> USE Apart DEF GInv, LInv, IInv
<1>0. TypeOK /\ HeapTypeOK
  OBVIOUS
<1>1. PICK p \in Blocks :
        /\ \E n \in Sizes \union {None} : heap' = [heap EXCEPT ![p] = n]
        /\ unseen' = unseen \union {p}
  BY DEF DllHeap
<1>2. /\ Running(Main) /\ InDll(Main) /\ request = Idle
      /\ UNCHANGED <<vars, request, due, live_allocs, freed_blocks, pending_alloc>>
  BY DEF DllHeap, ledger
<1>3. UNCHANGED <<rip, stack, event, loaded, entry_rva, tracing>>
  BY <1>2 DEF vars, debuggee, tracer, mode
<1>4. Pending = "none" /\ rip[Main] \notin MainCode \union {Skid}
  <2>1. rip[Main] \in DllCode
    BY <1>0, <1>2 DEF InDll, TypeOK, DllCode
  <2>2. Pending = "none"
    BY <1>2 DEF Running, NoEvent, Pending
  <2>3. Skid \notin DllCode
    BY ConstAssumption DEF DllCode, Skid
  <2>4. QED
    BY <2>1, <2>2, <2>3
<1>5. \A q \in Blocks \ unseen' : heap'[q] = heap[q] /\ q \notin unseen
  BY <1>0, <1>1 DEF HeapTypeOK
<1>6. ASSUME Noted(request) PROVE Noted(request)'
  <2>1. \A q \in Blocks \ unseen' :
          live_allocs[q] = heap[q] /\ (q \in freed_blocks => live_allocs[q] = None)
    BY <1>2, <1>5, <1>6, SizeFacts DEF Noted
  <2>2. QED
    BY <1>2, <1>5, <2>1, SizeFacts DEF Noted
<1>7. ASSUME AgreeOff(unseen) PROVE AgreeOff(unseen)'
  BY <1>2, <1>5, <1>7 DEF AgreeOff, Agrees
<1>8. CASE ~tracing
  BY <1>2, <1>3, <1>7, <1>8 DEF Booked, Untouched
<1>9. CASE tracing
  BY <1>2, <1>3, <1>4, <1>6, <1>9 DEF Booked, Kept, InMain, ReturnAddress, Pending
<1>10. QED
  BY <1>8, <1>9

(* A call that was noted comes back to the image.                          *)
LEMMA Returned ==
  ASSUME HeapTypeOK, Noted(request), due = {},
         Served(request) \/ Refused(request),
         UNCHANGED <<live_allocs, freed_blocks, pending_alloc>>
  PROVE AgreeOff(unseen \union due)' /\ Owing'
<1>0. request \in Requests
  BY DEF HeapTypeOK
<1> USE <1>0, RequestFacts, SizeFacts
<1>1. CASE request.fn = "alloc"
  <2>1. \A q \in Blocks \ unseen : Agrees(q)
    BY <1>1 DEF Noted, Agrees
  <2>2. CASE Refused(request)
    BY <1>1, <2>1, <2>2 DEF Refused, AgreeOff, Agrees, Owing
  <2>3. CASE Served(request)
    <3>1. PICK p \in Blocks :
            heap' = [heap EXCEPT ![p] = request.size] /\ due' = {p}
      BY <1>1, <2>3 DEF Served
    <3>2. unseen' = unseen /\ pending_alloc' = request.size
      BY <1>1, <2>3 DEF Served, Noted
    <3>3. heap'[p] = request.size /\ \A q \in Blocks \ {p} : heap'[q] = heap[q]
      BY <3>1 DEF HeapTypeOK
    <3>4. Owing'
      BY <1>1, <3>1, <3>2, <3>3 DEF Owing
    <3>5. QED
      BY <2>1, <3>1, <3>2, <3>3, <3>4 DEF AgreeOff, Agrees
  <2>4. QED
    BY <2>2, <2>3
<1>2. ASSUME request.fn \in {"realloc", "free"},
             NEW q \in Blocks \ unseen, q # request.block
      PROVE Agrees(q)
  BY <1>2 DEF Noted, Agrees
<1>3. CASE request.fn = "realloc"
  <2>1. CASE Refused(request)
    <3>1. unseen' = unseen \union {request.block} /\ UNCHANGED <<heap, due>>
      BY <1>3, <2>1 DEF Refused
    <3>2. QED
      BY <1>2, <1>3, <3>1 DEF AgreeOff, Agrees, Owing
  <2>2. CASE Served(request)
    <3>1. PICK p \in Blocks :
            /\ heap' = [heap EXCEPT ![request.block] = None, ![p] = request.size]
            /\ due' = {p}
      BY <1>3, <2>2 DEF Served
    <3>2. unseen' = unseen \ {request.block} /\ pending_alloc' = request.size
      BY <1>3, <2>2 DEF Served, Noted
    <3>3. /\ heap'[p] = request.size
          /\ p # request.block => heap'[request.block] = None
          /\ \A q \in Blocks \ {p, request.block} : heap'[q] = heap[q]
      BY <1>3, <3>1 DEF HeapTypeOK
    <3>4. Owing'
      BY <1>3, <3>1, <3>2, <3>3 DEF Owing
    <3>5. ASSUME NEW q \in Blocks \ (unseen' \union due') PROVE Agrees(q)'
      <4>1. CASE q = request.block
        <5>1. live_allocs[q] = None /\ heap'[q] = None
          BY <1>3, <3>1, <3>3, <3>5, <4>1 DEF Noted
        <5>2. QED
          BY <5>1 DEF Agrees
      <4>2. CASE q # request.block
        BY <1>2, <1>3, <3>1, <3>2, <3>3, <3>5, <4>2 DEF Agrees
      <4>3. QED
        BY <4>1, <4>2
    <3>6. QED
      BY <3>4, <3>5 DEF AgreeOff
  <2>3. QED
    BY <2>1, <2>2
<1>4. CASE request.fn = "free"
  <2>1. /\ heap' = [heap EXCEPT ![request.block] = None]
        /\ unseen' = unseen \ {request.block} /\ due' = due
    BY <1>4 DEF Served, Refused
  <2>2. ASSUME NEW q \in Blocks \ unseen' PROVE Agrees(q)'
    <3>1. CASE q = request.block
      <4>1. live_allocs[q] = None /\ heap'[q] = None
        BY <1>4, <2>1, <3>1 DEF Noted, HeapTypeOK
      <4>2. QED
        BY <4>1 DEF Agrees
    <3>2. CASE q # request.block
      <4>1. Agrees(q) /\ heap'[q] = heap[q]
        BY <1>2, <1>4, <2>1, <2>2, <3>2 DEF HeapTypeOK
      <4>2. QED
        BY <4>1 DEF Agrees
    <3>3. QED
      BY <3>1, <3>2
  <2>3. QED
    BY <2>1, <2>2 DEF AgreeOff, Owing
<1>5. CASE request.fn = "none"
  <2>1. UNCHANGED <<heap, due, unseen>>
    BY <1>5 DEF Served, Refused
  <2>2. \A q \in Blocks \ unseen : Agrees(q)
    BY <1>5 DEF Noted, Agrees
  <2>3. QED
    BY <2>1, <2>2 DEF AgreeOff, Agrees, Owing
<1>6. QED
  BY <1>1, <1>3, <1>4, <1>5

LEMMA ReturnInStep ==
  ASSUME GInv, entry_rva # Absent, ReturnIn
  PROVE Booked'
<1> USE Apart DEF GInv, LInv, IInv
<1>0. TypeOK /\ HeapTypeOK
  OBVIOUS
<1>1. /\ Running(Main) /\ InDll(Main) /\ stack[Main] # <<>>
      /\ Arrive(Main, Head(stack[Main]), Tail(stack[Main]))
      /\ Served(request) \/ Refused(request)
      /\ request' = Idle
      /\ UNCHANGED <<live_allocs, freed_blocks, pending_alloc>>
  BY DEF ReturnIn, Ret, ledger
<1>2. Pending = "none" /\ rip[Main] \in DllCode /\ rip[Main] \notin MainCode
  BY <1>0, <1>1 DEF Running, NoEvent, Pending, InDll, TypeOK, DllCode
<1>3. tracing
  BY <1>1, <1>2 DEF Known, Waiting, Starting
<1>4. tf[Main] = FALSE
  BY <1>2, <1>3, Followed1
<1> DEFINE a == Head(stack[Main])
<1>5. /\ rip'[Main] = a /\ stack'[Main] = Tail(stack[Main]) /\ Pending' = "none"
      /\ tracing' = TRUE
  BY <1>0, <1>1, <1>2, <1>3, <1>4, Moves
<1>6. a \in Code /\ a # Skid /\ stack[Main] \in Seq(Code)
  BY <1>0, <1>1 DEF TypeOK
<1>7. CASE a \in DllCode
  <2>1. Tail(stack[Main]) = <<>>
    BY <1>1, <1>7, Outermost
  <2>2. ~InMain(ReturnAddress')
    BY <1>5, <2>1, Places DEF ReturnAddress, InMain
  <2>3. QED
    BY <1>5, <1>6, <1>7, <2>2 DEF Booked, Kept, InMain
<1>8. CASE a \in MainCode
  <2>1. Noted(request) /\ due = {}
    BY <1>1, <1>2, <1>3, <1>8 DEF Booked, Kept, InMain, ReturnAddress
  <2>2. AgreeOff(unseen \union due)' /\ Owing'
    BY <1>0, <1>1, <2>1, Returned
  <2>3. a \notin DllCode
    BY <1>8
  <2>4. QED
    BY <1>1, <1>5, <2>2, <2>3 DEF Booked, Kept
<1>9. QED
  BY <1>6, <1>7, <1>8 DEF Code

(* A step that neither reports nor answers one and leaves the heap alone.  *)
LEMMA QuietBooked ==
  ASSUME Booked, Same, UNCHANGED <<stack, entry_rva, tracing>>,
         Pending # "step", Pending' # "step",
         \/ rip' = rip
         \/ /\ rip[Main] \in MainCode \union {Skid}
            /\ rip'[Main] \in MainCode \union {Skid}
  PROVE Booked'
<1>1. ReturnAddress' = ReturnAddress
  BY DEF ReturnAddress
<1>3. ASSUME entry_rva # Absent, ~tracing PROVE Untouched'
  BY <1>3, SameFacts DEF Booked
<1>4. ASSUME entry_rva # Absent, tracing PROVE Kept'
  <2>1. Kept
    BY <1>4 DEF Booked
  <2>2. ASSUME rip'[Main] \in MainCode \union {Skid}
        PROVE request' = Idle /\ AgreeOff(unseen \union due)' /\ Owing'
    BY <2>1, <2>2, SameFacts DEF Kept
  <2>3. ASSUME rip'[Main] \in DllCode, InMain(ReturnAddress')
        PROVE due' = {} /\ Noted(request)'
    <3>1. rip' = rip
      BY <2>3, Apart
    <3>2. QED
      BY <1>1, <2>1, <2>3, <3>1, SameFacts DEF Kept
  <2>4. QED
    BY <2>2, <2>3 DEF Kept, InMain
<1>5. QED
  BY <1>3, <1>4 DEF Booked

LEMMA StillBooked ==
  ASSUME Booked, Same, UNCHANGED <<stack, entry_rva, tracing, rip, event, loaded>>
  PROVE Booked'
  BY SameFacts DEF Same, process, Booked, Kept, Legal, InDll, Pending, ReturnAddress

LEMMA ElsewhereStep ==
  ASSUME GInv, entry_rva # Absent, Elsewhere
  PROVE Booked'
<1> USE Apart DEF GInv, LInv, IInv
<1>0. TypeOK /\ Same
  BY DEF Elsewhere, Same
<1>a. ASSUME Running(Main) PROVE Pending = "none"
  BY <1>a DEF Running, NoEvent, Pending
<1>1. CASE StartMain
  <2>1. Running(Main) /\ boot = "ready" /\ Arrive(Main, Entry, <<rip[Main]>>)
    BY <1>1 DEF StartMain
  <2>2. ~tracing
    BY <2>1 DEF Known, Following
  <2>3. Untouched /\ UNCHANGED <<entry_rva, tracing>>
    BY <1>0, <2>1, <2>2, Moves DEF Booked
  <2>4. QED
    BY <1>0, <2>2, <2>3, SameFacts DEF Booked
<1>2. CASE DllStep(Main)
  <2>1. Running(Main) /\ tf[Main] /\ Arrive(Main, rip[Main], stack[Main])
    BY <1>2 DEF DllStep
  <2>2. rip[Main] \in DllCode
    BY <1>0, <1>2 DEF DllStep, InDll, TypeOK, DllCode
  <2>3. ~tracing
    BY <1>a, <2>1, <2>2, Followed1
  <2>4. Untouched /\ UNCHANGED <<entry_rva, tracing>>
    BY <1>0, <2>1, <2>3, Moves DEF Booked
  <2>5. QED
    BY <1>0, <2>3, <2>4, SameFacts DEF Booked
<1>3. CASE HitInt3(Main)
  <2>1. /\ Running(Main) /\ rip[Main] \in MainCode /\ rip'[Main] = Skid
        /\ event'[Main] = <<"break", rip[Main]>>
        /\ UNCHANGED <<stack, entry_rva, tracing>>
    BY <1>0, <1>3 DEF HitInt3, InImage, Raise, TypeOK, tracer, mode
  <2>2. QED
    BY <1>0, <1>a, <2>1, QuietBooked DEF Pending
<1>4. CASE LoadDll \/ LoaderBreak \/ Benign(Main) \/ Fault(Main) \/ Exit(Main)
  <2>1. PICK k \in {"load", "break", "benign", "fault", "exit"} :
          \E b : Raise(Main, k, b)
    BY <1>4 DEF LoadDll, LoaderBreak, Benign, Fault, Exit
  <2>2. Pending' = k
    BY <1>0, <2>1 DEF Raise, Pending, TypeOK
  <2>3. Running(Main) /\ UNCHANGED <<stack, entry_rva, tracing, rip>>
    BY <1>4 DEF LoadDll, LoaderBreak, Benign, Fault, Exit, tracer, mode
  <2>4. QED
    BY <1>0, <1>a, <2>2, <2>3, QuietBooked
<1>5. QED
  BY <1>1, <1>2, <1>3, <1>4 DEF Elsewhere

LEMMA OthersStep ==
  ASSUME GInv, entry_rva # Absent, Others
  PROVE Booked'
<1> USE Apart DEF GInv, LInv, IInv, cpu, mode, outside
<1>0. TypeOK /\ Same
  BY DEF Others, Same
<1>a. ASSUME Continue(Main) PROVE Pending' = "none"
  BY <1>0, <1>a DEF Continue, Pending, NoEvent, TypeOK
<1>1. CASE \/ CreateProcess(Main) \/ LoadDllEvent(Main) \/ ForeignBp(Main)
           \/ PassCode(Main)
  <2>1. /\ Pending # "step" /\ Pending' # "step"
        /\ UNCHANGED <<rip, stack, entry_rva, tracing>>
    BY <1>1, <1>a DEF CreateProcess, LoadDllEvent, ForeignBp, PassCode, Reported, Pending
  <2>2. QED
    BY <1>0, <2>1, QuietBooked
<1>2. CASE ExitProcess(Main) \/ RealException(Main) \/ Timeout
  BY <1>0, <1>2, StillBooked DEF ExitProcess, RealException, Timeout, Stop
<1>3. CASE FirstBp(Main)
  <2>1. /\ Pending = "break" /\ Pending' = "none" /\ first_bp_seen = FALSE
        /\ entry_bp # Absent => tracing' = tracing
        /\ UNCHANGED <<rip, stack, entry_rva>>
    BY <1>0, <1>3, <1>a DEF FirstBp, Reported, Pending, TypeOK
  <2>2. entry_bp = Entry
    BY <2>1 DEF Known, Following, Waiting
  <2>3. tracing' = tracing
    BY <2>1, <2>2, Places
  <2>4. QED
    BY <1>0, <2>1, <2>3, QuietBooked
<1>4. ASSUME Pending = "break", first_bp_seen = TRUE
      PROVE /\ rip[Main] = Skid /\ event[Main][2] \in MainCode
  BY <1>0, <1>4 DEF Underneath
<1>5. CASE OneShotBp(Main)
  <2>1. /\ Pending = "break" /\ Pending' = "none" /\ first_bp_seen = TRUE
        /\ rip'[Main] = event[Main][2]
        /\ UNCHANGED <<stack, entry_rva, tracing>>
    BY <1>0, <1>5, <1>a DEF OneShotBp, Reported, Pending, Addr, Rewind, TypeOK
  <2>2. QED
    BY <1>0, <1>4, <2>1, QuietBooked
<1>6. CASE EntryBp(Main)
  <2>1. /\ Pending = "break" /\ Pending' = "none" /\ first_bp_seen = TRUE
        /\ entry_bp # Absent /\ tracing' = TRUE
        /\ rip'[Main] = event[Main][2]
        /\ UNCHANGED <<stack, entry_rva>>
    BY <1>0, <1>6, <1>a DEF EntryBp, Reported, Pending, Addr, Rewind, TypeOK
  <2>2. ~tracing
    BY <2>1 DEF Known, Following
  <2>3. Untouched'
    BY <1>0, <2>2, SameFacts DEF Booked
  <2>4. request' = Idle /\ AgreeOff(unseen \union due)' /\ Owing'
    BY <2>3 DEF Untouched, Owing, AgreeOff
  <2>5. rip'[Main] \in MainCode
    BY <1>4, <2>1
  <2>6. QED
    BY <2>1, <2>4, <2>5 DEF Booked, Kept
<1>7. QED
  BY <1>1, <1>2, <1>3, <1>5, <1>6 DEF Others

LEMMA StepInStep ==
  ASSUME GInv, entry_rva # Absent, StepIn
  PROVE Booked'
<1> USE Apart DEF GInv, LInv, IInv, mode, outside, cpu
<1>0. TypeOK /\ HeapTypeOK
  OBVIOUS
<1>1. /\ Pending = "step" /\ Pending' = "none" /\ rip[Main] \in MainCode
      /\ UNCHANGED <<rip, stack, tracing>>
  BY <1>0 DEF StepIn, StepInImage, Reported, Pending, InMain, Continue, NoEvent,
              TypeOK
<1>2. tracing
  BY <1>1, StepsFollowed
<1>3. request = Idle /\ AgreeOff(unseen \union due) /\ Owing
  BY <1>1, <1>2 DEF Booked, Kept
<1>4. /\ UNCHANGED <<heap, rax, request>> /\ due' = {}
      /\ unseen' = IF pending_alloc = None THEN unseen
                   ELSE IF due = {rax} THEN unseen \ due
                   ELSE unseen \union due \union ({rax} \ {Null})
      /\ IF pending_alloc = None \/ rax = Null
           THEN UNCHANGED <<live_allocs, freed_blocks>>
           ELSE /\ live_allocs' = [live_allocs EXCEPT ![rax] = pending_alloc]
                /\ freed_blocks' = freed_blocks \ {rax}
  BY DEF StepIn, Capture
<1>5. AgreeOff(unseen)'
  <2>1. CASE pending_alloc = None
    BY <1>3, <1>4, <2>1 DEF Owing, AgreeOff, Agrees
  <2>2. CASE pending_alloc # None /\ due = {rax}
    <3>1. rax \in Blocks /\ rax # Null /\ heap[rax] = pending_alloc
      BY <1>0, <1>3, <2>2, SizeFacts DEF Owing, HeapTypeOK
    <3>2. Agrees(rax)'
      BY <1>0, <1>4, <2>2, <3>1 DEF Agrees, HeapTypeOK
    <3>3. ASSUME NEW p \in Blocks \ (unseen \union due) PROVE Agrees(p)'
      BY <1>0, <1>3, <1>4, <2>2, <3>1, <3>3 DEF AgreeOff, Agrees, HeapTypeOK
    <3>4. QED
      BY <1>4, <2>2, <3>2, <3>3 DEF AgreeOff
  <2>3. CASE pending_alloc # None /\ due # {rax}
    <3>1. ASSUME NEW p \in Blocks \ unseen' PROVE Agrees(p)'
      <4>1. p \notin unseen \union due /\ (rax # Null => p # rax)
        BY <1>4, <2>3, <3>1
      <4>2. QED
        BY <1>0, <1>3, <1>4, <4>1 DEF AgreeOff, Agrees, HeapTypeOK
    <3>2. QED
      BY <3>1 DEF AgreeOff
  <2>4. QED
    BY <2>1, <2>2, <2>3
<1>6. AgreeOff(unseen \union due)' /\ Owing'
  BY <1>4, <1>5 DEF Owing, AgreeOff
<1>7. QED
  BY <1>1, <1>2, <1>3, <1>4, <1>6 DEF Booked, Kept

(* A call that is noted, from a ledger that is right but for what was      *)
(* missed.                                                                 *)
LEMMA RecordNotes ==
  ASSUME HeapTypeOK, AgreeOff(unseen), Legal(request),
         \E m \in modules : m[1] = rip[Main],
         Record, UNCHANGED <<heap, request, unseen>>
  PROVE Noted(request)'
<1>0. request \in Requests
  BY DEF HeapTypeOK
<1> USE <1>0, RequestFacts DEF HeapTypeOK
<1>1. ASSUME NEW p \in Blocks \ unseen
      PROVE live_allocs[p] = heap[p] /\ (p \in freed_blocks => live_allocs[p] = None)
  BY <1>1 DEF AgreeOff, Agrees
<1>2. CASE request.fn = "none"
  BY <1>1, <1>2 DEF Record, ledger, Noted
<1>3. CASE request.fn = "alloc"
  BY <1>1, <1>3 DEF Record, Noted
<1>4. ASSUME request.fn \in {"free", "realloc"}, Release(request.block)
      PROVE /\ live_allocs'[request.block] = None
            /\ \A p \in Blocks \ unseen :
                 /\ live_allocs'[p] = IF p = request.block THEN None ELSE heap[p]
                 /\ p \in freed_blocks' => live_allocs'[p] = None
  <2>1. CASE live_allocs[request.block] = None
    <3>1. UNCHANGED <<live_allocs, freed_blocks>>
      BY <1>4, <2>1 DEF Release
    <3>2. QED
      BY <1>1, <2>1, <3>1
  <2>2. CASE live_allocs[request.block] # None
    <3>1. /\ live_allocs' = [live_allocs EXCEPT ![request.block] = None]
          /\ freed_blocks' = freed_blocks \union {request.block}
      BY <1>4, <2>2 DEF Release
    <3>2. QED
      BY <1>1, <1>4, <3>1
  <2>3. QED
    BY <2>1, <2>2
<1>5. CASE request.fn = "free"
  <2>1. Release(request.block)
    BY <1>5 DEF Record
  <2>2. QED
    BY <1>4, <1>5, <2>1 DEF Noted
<1>6. CASE request.fn = "realloc"
  <2>1. Release(request.block) /\ pending_alloc' = request.size
    BY <1>6 DEF Record
  <2>2. QED
    BY <1>4, <1>6, <2>1 DEF Noted
<1>7. QED
  BY <1>2, <1>3, <1>5, <1>6

LEMMA StepOutStep ==
  ASSUME GInv, entry_rva # Absent, StepOut
  PROVE Booked'
<1> USE Apart DEF GInv, LInv, IInv, mode, outside, cpu
<1>0. TypeOK /\ HeapTypeOK
  OBVIOUS
<1>1. /\ Pending = "step" /\ rip[Main] \notin MainCode
      /\ UNCHANGED <<rip, stack, tracing, heap, request, due, unseen>>
      /\ entry_rva' = entry_rva /\ Record
  BY DEF StepOut, WildBranch, StepOver, RunFree, Reported, Pending, InMain, process
<1>2. tracing /\ rip[Main] # Skid
  BY <1>1, StepsFollowed DEF Underneath
<1>3. ReturnAddress' = ReturnAddress
  BY <1>1 DEF ReturnAddress
<1> SUFFICES ASSUME rip[Main] \in DllCode, InMain(ReturnAddress)
             PROVE /\ due' = {}
                   /\ IF Pending' = "step"
                        THEN AgreeOff(unseen)' /\ Legal(request)' /\ InDll(Main)'
                        ELSE Noted(request)'
  BY <1>1, <1>2, <1>3 DEF Booked, Kept, InMain
<1>4. due = {} /\ AgreeOff(unseen) /\ Legal(request) /\ InDll(Main)
  BY <1>1, <1>2 DEF Booked, Kept
<1>5. CASE WildBranch(Main)
  <2>1. ~InSomeModule(rip[Main]) /\ UNCHANGED <<event, loaded>>
    BY <1>5 DEF WildBranch, Stop
  <2>2. ~ \E m \in modules : m[1] = rip[Main]
    <3>1. ASSUME NEW m \in modules, m[1] = rip[Main]
          PROVE m[1] <= rip[Main] /\ rip[Main] < m[1] + m[2]
      <4>1. m[1] \in Nat /\ m[2] \in Nat /\ m[1] < m[2]
        BY <1>0, ConstAssumption DEF TypeOK
      <4>2. QED
        BY <3>1, <4>1
    <3>2. QED
      BY <2>1, <3>1 DEF InSomeModule
  <2>3. UNCHANGED ledger
    BY <1>1, <2>2 DEF Record
  <2>4. QED
    BY <1>1, <1>4, <2>1, <2>3 DEF Pending, AgreeOff, Agrees, Legal, InDll, ledger
<1>6. CASE StepOver(Main) \/ RunFree(Main)
  <2>1. InSomeModule(rip[Main]) /\ Pending' = "none"
    BY <1>0, <1>6 DEF StepOver, RunFree, Continue, Pending, NoEvent, TypeOK
  <2>2. \E m \in modules : m[1] = rip[Main]
    <3>1. Apilog
      BY <2>1 DEF Listed, InSomeModule
    <3>2. PICK d \in loaded : rip[Main] = d[1]
      BY <1>4 DEF InDll
    <3>3. event[Main] # <<"load", d[1]>>
      BY <1>1 DEF Pending
    <3>4. QED
      BY <3>1, <3>2, <3>3 DEF Listed
  <2>3. Noted(request)'
    BY <1>0, <1>1, <1>4, <2>2, RecordNotes
  <2>4. QED
    BY <1>1, <1>4, <2>1, <2>3
<1>7. QED
  BY <1>5, <1>6 DEF StepOut

LEMMA GInvariant == HeapSpec => []GInv
<1>1. HeapInit => GInv
  <2> SUFFICES ASSUME HeapInit PROVE GInv
    OBVIOUS
  <2>1. LInv
    BY LoneInit DEF HeapInit
  <2>2. HeapTypeOK
    BY SizeFacts DEF HeapInit, HeapTypeOK
  <2>3. Booked
    BY DEF HeapInit, Init, Booked, Untouched, AgreeOff, Agrees
  <2>4. Listed
    BY DEF HeapInit, Init, Listed
  <2>5. QED
    BY <2>1, <2>2, <2>3, <2>4 DEF GInv
<1>2. GInv /\ [HeapNext]_guarded => GInv'
  <2> SUFFICES ASSUME GInv, [HeapNext]_guarded PROVE GInv'
    OBVIOUS
  <2>1. [Next]_vars
    BY Beside
  <2>2. LInv'
    BY <2>1, One, LoneStep DEF GInv
  <2>3. HeapTypeOK'
    BY HeapTypeStep DEF GInv
  <2>4. Listed'
    BY <2>1, ListedStep DEF GInv
  <2>5. entry_rva' = entry_rva
    BY <2>1, EntryKept
  <2>6. CASE entry_rva = Absent
    BY <2>2, <2>3, <2>4, <2>5, <2>6 DEF GInv, Booked
  <2>7. ASSUME entry_rva # Absent PROVE Booked'
    <3>1. CASE UNCHANGED guarded
      BY <2>7, <3>1, StillBooked
         DEF GInv, guarded, vars, debuggee, tracer, mode, Same
    <3>2. CASE HeapNext
      BY <2>7, <3>2, CallOutStep, InsideStep, DllHeapStep, ReturnInStep,
         ElsewhereStep, StepInStep, StepOutStep, OthersStep
         DEF HeapNext
    <3>3. QED
      BY <3>1, <3>2
  <2>8. QED
    BY <2>2, <2>3, <2>4, <2>6, <2>7 DEF GInv
<1>3. QED
  BY <1>1, <1>2, PTL DEF HeapSpec

(* For any image, heap and DLLs, with the allocations DLLs make, those of  *)
(* the image that fail and any use it makes of rax: inside the image the   *)
(* ledger errs about a block only from what the tracer missed of that      *)
(* block until the block's next allocation or free that it sees            *)
(* (dbg_trace.py 629-638 and 756-771).                                     *)
THEOREM LedgerErrs == HeapSpec => []LedgerErrsPerBlock
<1>1. GInv => LedgerErrsPerBlock
  <2> SUFFICES ASSUME GInv, entry_rva # Absent, event[Main] = NoEvent, Ahead(Main)
               PROVE AgreeOff(unseen \union due)
    BY DEF LedgerErrsPerBlock, AgreeOff
  <2>1. rip[Main] \in MainCode
    BY DEF Ahead, InImage
  <2>2. tracing => AgreeOff(unseen \union due)
    BY <2>1 DEF GInv, Booked, Kept
  <2>3. ~tracing => AgreeOff(unseen \union due)
    BY DEF GInv, Booked, Untouched, AgreeOff
  <2>4. QED
    BY <2>2, <2>3
<1>2. QED
  BY <1>1, GInvariant, PTL
=============================================================================
