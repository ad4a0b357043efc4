----------------------------- MODULE StepTracer -----------------------------
(***************************************************************************)
(* The step-over tracer dbg_trace.py: the debug loop of main() (445-848)   *)
(* with its helpers (345-386), and the debuggee it drives.                 *)
(*                                                                         *)
(* While the main thread is inside the main image the trap flag is on and  *)
(* every instruction comes back as a single-step event.  When it leaves    *)
(* the image the tracer plants a one-shot INT3 at the return address,      *)
(* clears the flag and lets the system code run.                           *)
(*                                                                         *)
(* The processor, the threads and the DLLs are not in the repository: they *)
(* are the actions that end in an event.  A thread stops when it raises    *)
(* one and goes on when the tracer has handled it; the events of different *)
(* threads may be raised before either is handled.                         *)
(***************************************************************************)
EXTENDS Naturals, Sequences, FiniteSets

CONSTANTS
  Threads, Main,     \* Main is the thread of pi.hThread
  MainSize, Entry,   \* the image is 1 .. MainSize and starts at Entry
  Dlls,              \* the DLLs the program loads: <<lo, hi>>, code at lo
  Ntdll,             \* the one that is there before any code of the image runs
  Wild,              \* addresses in no module, where a bad call may lead:
                     \* below, between and above the modules
  Apilog,            \* the option --apilog
  Reentrant,         \* DLLs call back, unwind, and threads run the image
  RingMax,           \* --ring
  MaxStack           \* bound: how deep the calls of a thread nest

(* in_main tests base .. base + 0x200000, the image and what room is left  *)
(* behind it; nothing is mapped there in the model.                        *)
MainCode == 1 .. MainSize
DllCode == {d[1] : d \in Dlls}
Code == MainCode \union DllCode
Absent == 0                        \* no address: a breakpoint that is not set
Skid == MainSize + 1               \* one past an INT3, inside an instruction

ASSUME ConstAssumption ==
  /\ Main \in Threads
  /\ MainSize \in Nat \ {0}
  /\ Entry \in MainCode
  /\ Dlls \subseteq (Nat \X Nat)
  /\ Ntdll \in Dlls
  /\ \A d \in Dlls : Skid < d[1] /\ d[1] < d[2]
  /\ Wild \subseteq Nat
  /\ Wild \intersect (Code \union {Skid}) = {}
  /\ Apilog \in BOOLEAN
  /\ Reentrant \in BOOLEAN
  /\ RingMax \in Nat \ {0}
  /\ MaxStack \in Nat \ {0}

VARIABLES
  \* the debuggee
  rip, stack,     \* per thread: the next instruction, the return addresses
  tf,             \* per thread: the trap flag
  event,          \* per thread: the debug event it waits on, or NoEvent
  mem,            \* what the first byte of an instruction of the image is
  loaded,         \* the DLLs that are mapped
  boot,           \* how far the process start has come
  \* the tracer, under its own names
  entry_rva,      \* the entry point, or Absent when pefile cannot say
  bp_addr, bp_orig, entry_bp, tracing, first_bp_seen, modules, ring,
  verdict,        \* why the loop ended, "none" while it goes on
  trail           \* history: the last instructions of the image that the
                  \* main thread came to, and whether from inside the image

debuggee == <<rip, stack, tf, event, mem, loaded, boot>>
cpu == <<rip, stack>>
plant == <<bp_addr, bp_orig, entry_bp>>
mode == <<tracing, first_bp_seen>>
log == <<modules, ring>>
tracer == <<entry_rva, plant, mode, log, verdict>>
outside == <<loaded, boot, entry_rva, trail>>    \* what no handler changes
vars == <<debuggee, tracer, trail>>

NoEvent == <<"none", Absent>>
Kinds == {"none", "create", "load", "break", "step", "benign", "fault", "exit"}
Bytes == {"insn", "int3"}
Verdicts == {"none", "exit", "fault", "wild", "timeout"}
Anywhere == Code \union Wild \union {Skid}

Visits == [at : MainCode, inner : BOOLEAN]

TypeOK ==
  /\ rip \in [Threads -> Anywhere]
  /\ stack \in [Threads -> Seq(Code)]
  /\ tf \in [Threads -> BOOLEAN]
  /\ event \in [Threads -> Kinds \X (Anywhere \union {Absent})]
  /\ mem \in [MainCode -> Bytes]
  /\ loaded \subseteq Dlls
  /\ boot \in {"loading", "ready", "started"}
  /\ entry_rva \in {Entry, Absent}
  /\ bp_addr \in MainCode \union {Absent}
  /\ bp_orig \in Bytes
  /\ entry_bp \in MainCode \union {Absent}
  /\ tracing \in BOOLEAN
  /\ first_bp_seen \in BOOLEAN
  /\ modules \subseteq Dlls
  /\ ring \in Seq(MainCode)
  /\ verdict \in Verdicts
  /\ trail \in Seq(Visits)

(* CreateProcess: the main thread is in the loader and the first event is  *)
(* on its way.                                                             *)
Init ==
  /\ rip = [t \in Threads |-> Ntdll[1]]
  /\ stack = [t \in Threads |-> <<>>]
  /\ tf = [t \in Threads |-> FALSE]
  /\ event = [t \in Threads |->
                IF t = Main THEN <<"create", Absent>> ELSE NoEvent]
  /\ mem = [a \in MainCode |-> "insn"]
  /\ loaded = {}
  /\ boot = "loading"
  /\ entry_rva \in {Entry, Absent}
  /\ bp_addr = Absent
  /\ bp_orig = "insn"
  /\ entry_bp = Absent
  /\ tracing = FALSE
  /\ first_bp_seen = FALSE
  /\ modules = {}
  /\ ring = <<>>
  /\ verdict = "none"
  /\ trail = <<>>

-----------------------------------------------------------------------------
(* The debuggee.                                                           *)

Running(t) == verdict = "none" /\ event[t] = NoEvent
InImage(t) == rip[t] \in MainCode
Ahead(t) == InImage(t) /\ mem[rip[t]] = "insn"     \* a whole instruction
InDll(t) == \E d \in loaded : rip[t] = d[1]

Raise(t, kind, a) == event' = [event EXCEPT ![t] = <<kind, a>>]

(* The last RingMax of what was noted: list.append, then pop(0).           *)
Note(places, a) ==
  LET longer == Append(places, a)
  IN IF Len(longer) > RingMax THEN Tail(longer) ELSE longer

(* One instruction takes t to a.  With the trap flag on the processor      *)
(* clears it and raises the single-step event after the instruction.       *)
Arrive(t, a, frames) ==
  /\ rip' = [rip EXCEPT ![t] = a]
  /\ stack' = [stack EXCEPT ![t] = frames]
  /\ IF tf[t] THEN Raise(t, "step", a) ELSE UNCHANGED event
  /\ tf' = [tf EXCEPT ![t] = FALSE]
  /\ trail' = IF t = Main /\ a \in MainCode
                 THEN Note(trail, [at |-> a, inner |-> InImage(t)]) ELSE trail
  /\ UNCHANGED <<mem, loaded, tracer>>

Callable == MainCode \union {d[1] : d \in loaded} \union Wild

Jump(t) ==
  /\ Running(t) /\ Ahead(t)
  /\ \E a \in Callable : Arrive(t, a, stack[t])
  /\ UNCHANGED boot

Call(t) ==
  /\ Running(t) /\ Ahead(t)
  /\ rip[t] < MainSize
  /\ Len(stack[t]) < MaxStack
  /\ \E a \in Callable : Arrive(t, a, <<rip[t] + 1>> \o stack[t])
  /\ UNCHANGED boot

Ret(t) ==
  /\ Running(t)
  /\ Ahead(t) \/ InDll(t)
  /\ stack[t] # <<>>
  /\ Arrive(t, Head(stack[t]), Tail(stack[t]))
  /\ UNCHANGED boot

(* System code goes on for a while; only the trap flag makes that visible. *)
DllStep(t) ==
  /\ Running(t) /\ InDll(t)
  /\ tf[t]
  /\ Arrive(t, rip[t], stack[t])
  /\ UNCHANGED boot

(* The INT3 itself: the thread stops one byte past it.                     *)
HitInt3(t) ==
  /\ Running(t)
  /\ InImage(t) /\ mem[rip[t]] = "int3"
  /\ Raise(t, "break", rip[t])
  /\ rip' = [rip EXCEPT ![t] = Skid]
  /\ UNCHANGED <<stack, tf, mem, loaded, boot, tracer, trail>>

(* System code that calls back into the image (a window or thread          *)
(* procedure), or unwinds to a frame further out (longjmp, a handler).     *)
Callback(t) ==
  /\ Reentrant /\ boot = "started"
  /\ Running(t) /\ InDll(t)
  /\ Len(stack[t]) < MaxStack
  /\ \E a \in MainCode : Arrive(t, a, <<rip[t]>> \o stack[t])
  /\ UNCHANGED boot

Unwind(t) ==
  /\ Reentrant
  /\ Running(t) /\ InDll(t)
  /\ Len(stack[t]) > 1
  /\ \E n \in 2 .. Len(stack[t]) :
       Arrive(t, stack[t][n], SubSeq(stack[t], n + 1, Len(stack[t])))
  /\ UNCHANGED boot

(* Start-up: the loader maps DLLs, hits its own breakpoint, calls Entry.   *)
LoadDll ==
  /\ Running(Main) /\ rip[Main] \in DllCode
  /\ \E d \in Dlls \ loaded :
       /\ loaded = {} => d = Ntdll
       /\ loaded' = loaded \union {d}
       /\ Raise(Main, "load", d[1])
  /\ UNCHANGED <<rip, stack, tf, mem, boot, tracer, trail>>

LoaderBreak ==
  /\ Running(Main)
  /\ boot = "loading" /\ loaded # {}
  /\ boot' = "ready"
  /\ Raise(Main, "break", rip[Main])
  /\ UNCHANGED <<rip, stack, tf, mem, loaded, tracer, trail>>

StartMain ==
  /\ Running(Main) /\ InDll(Main)
  /\ boot = "ready"
  /\ boot' = "started"
  /\ Arrive(Main, Entry, <<rip[Main]>>)

(* A code of pass_codes, raised by system code only under a debugger.      *)
Benign(t) ==
  /\ Running(t) /\ InDll(t)
  /\ Raise(t, "benign", rip[t])
  /\ UNCHANGED <<rip, stack, tf, mem, loaded, boot, tracer, trail>>

(* Any other exception; nothing is mapped at a wild address.               *)
Fault(t) ==
  /\ Running(t)
  /\ Ahead(t) \/ InDll(t) \/ rip[t] \in Wild \union {Skid}
  /\ Raise(t, "fault", rip[t])
  /\ UNCHANGED <<rip, stack, tf, mem, loaded, boot, tracer, trail>>

Exit(t) ==
  /\ Running(t) /\ InDll(t)
  /\ Raise(t, "exit", rip[t])
  /\ UNCHANGED <<rip, stack, tf, mem, loaded, boot, tracer, trail>>

-----------------------------------------------------------------------------
(* The tracer.  Each handler ends in ContinueDebugEvent, or in             *)
(* TerminateProcess and the end of the loop.                               *)

Reported(t, kind) == verdict = "none" /\ event[t][1] = kind
Addr(t) == event[t][2]
Continue(t) == event' = [event EXCEPT ![t] = NoEvent]
Stop(why) == verdict' = why /\ UNCHANGED event

(* set_tf always acts on pi.hThread, whichever thread raised the event.    *)
SetTF(on) == tf' = [tf EXCEPT ![Main] = on]
WriteMem(a, byte) == mem' = [mem EXCEPT ![a] = byte]

(* ctx.Rip = addr on the context of pi.hThread: back to the instruction    *)
(* under the INT3.                                                         *)
Rewind(a) == rip' = [rip EXCEPT ![Main] = a]

(* Mutant: the byte under the breakpoint read after it was written. *)
ArmBpReadsLate(a) ==
  /\ WriteMem(a, "int3")
  /\ bp_orig' = mem'[a]
  /\ bp_addr' = a

ArmBp(a) ==
  /\ bp_orig' = mem[a]
  /\ bp_addr' = a
  /\ WriteMem(a, "int3")

ClearBp ==
  /\ WriteMem(bp_addr, bp_orig)
  /\ bp_addr' = Absent
  /\ bp_orig' = "insn"

CreateProcess(t) ==
  /\ Reported(t, "create")
  /\ entry_bp' = entry_rva
  /\ IF entry_rva = Absent THEN UNCHANGED mem ELSE WriteMem(entry_rva, "int3")
  /\ Continue(t)
  /\ UNCHANGED <<cpu, tf, bp_addr, bp_orig, mode, log, verdict, outside>>

LoadDllEvent(t) ==
  /\ Reported(t, "load")
  /\ modules' = IF Apilog THEN modules \union {d \in Dlls : d[1] = Addr(t)}
                           ELSE modules
  /\ Continue(t)
  /\ UNCHANGED <<cpu, tf, mem, plant, mode, ring, verdict, outside>>

ExitProcess(t) ==
  /\ Reported(t, "exit")
  /\ Stop("exit")
  /\ UNCHANGED <<cpu, tf, mem, plant, mode, log, outside>>

(* The first breakpoint is the loader's; tracing waits for the entry.      *)
FirstBp(t) ==
  /\ Reported(t, "break")
  /\ ~first_bp_seen
  /\ first_bp_seen' = TRUE
  /\ IF entry_bp = Absent
       THEN tracing' = TRUE /\ SetTF(TRUE)
       ELSE UNCHANGED <<tracing, tf>>
  /\ Continue(t)
  /\ UNCHANGED <<cpu, mem, plant, log, verdict, outside>>

EntryBp(t) ==
  /\ Reported(t, "break")
  /\ first_bp_seen
  /\ entry_bp # Absent /\ Addr(t) = entry_bp
  /\ WriteMem(entry_bp, "insn")
  /\ Rewind(Addr(t))
  /\ entry_bp' = Absent
  /\ tracing' = TRUE
  /\ SetTF(TRUE)
  /\ Continue(t)
  /\ UNCHANGED <<stack, bp_addr, bp_orig, first_bp_seen>>
  /\ UNCHANGED <<log, verdict, outside>>

(* Mutant: the thread not set back onto the restored instruction. *)
OneShotBpNoRewind(t) ==
  /\ Reported(t, "break")
  /\ first_bp_seen
  /\ bp_addr # Absent /\ Addr(t) = bp_addr /\ Addr(t) # entry_bp
  /\ ClearBp
  /\ SetTF(TRUE)
  /\ Continue(t)
  /\ UNCHANGED <<cpu, entry_bp, mode, log, verdict, outside>>

(* Mutant: tracing not taken up again after a step-over. *)
OneShotBpNoTF(t) ==
  /\ Reported(t, "break")
  /\ first_bp_seen
  /\ bp_addr # Absent /\ Addr(t) = bp_addr /\ Addr(t) # entry_bp
  /\ ClearBp
  /\ Rewind(Addr(t))
  /\ Continue(t)
  /\ UNCHANGED <<stack, tf, entry_bp, mode, log, verdict, outside>>

(* Mutant: tracing taken up again, the breakpoint left armed. *)
OneShotBpStaysArmed(t) ==
  /\ Reported(t, "break")
  /\ first_bp_seen
  /\ bp_addr # Absent /\ Addr(t) = bp_addr /\ Addr(t) # entry_bp
  /\ Rewind(Addr(t))
  /\ SetTF(TRUE)
  /\ Continue(t)
  /\ UNCHANGED <<stack, mem, plant, mode, log, verdict, outside>>

OneShotBp(t) ==
  /\ Reported(t, "break")
  /\ first_bp_seen
  /\ bp_addr # Absent /\ Addr(t) = bp_addr /\ Addr(t) # entry_bp
  /\ ClearBp
  /\ Rewind(Addr(t))
  /\ IF tracing THEN SetTF(TRUE) ELSE UNCHANGED tf
  /\ Continue(t)
  /\ UNCHANGED <<stack, entry_bp, mode, log, verdict, outside>>

(* Nobody's breakpoint: DBG_CONTINUE, the thread goes on behind the INT3.  *)
ForeignBp(t) ==
  /\ Reported(t, "break")
  /\ first_bp_seen
  /\ Addr(t) \notin {entry_bp, bp_addr}
  /\ Continue(t)
  /\ UNCHANGED <<cpu, tf, mem, plant, mode, log, verdict, outside>>

InMain(a) == a \in MainCode

(* Mutant: only the end of a module compared. *)
InSomeModuleBelowEnd(a) == \E m \in modules : a < m[1] + m[2]

(* modules holds (lo, hi), which this test reads as (base, size).          *)
InSomeModule(a) == \E m \in modules : m[1] <= a /\ a < m[1] + m[2]

ReturnAddress == IF stack[Main] = <<>> THEN Absent ELSE Head(stack[Main])

(* Mutant: the trap flag not set again, though the processor clears it. *)
StepInImageTFLost(t) ==
  /\ Reported(t, "step")
  /\ InMain(rip[Main])
  /\ ring' = Note(ring, rip[Main])
  /\ Continue(t)
  /\ UNCHANGED <<cpu, tf, mem, plant, mode, modules, verdict, outside>>

StepInImage(t) ==
  /\ Reported(t, "step")
  /\ InMain(rip[Main])
  /\ ring' = Note(ring, rip[Main])
  /\ SetTF(TRUE)
  /\ Continue(t)
  /\ UNCHANGED <<cpu, mem, plant, mode, modules, verdict, outside>>

WildBranch(t) ==
  /\ Reported(t, "step")
  /\ ~InMain(rip[Main]) /\ ~InSomeModule(rip[Main])
  /\ Stop("wild")
  /\ UNCHANGED <<cpu, tf, mem, plant, mode, log, outside>>

StepOver(t) ==
  /\ Reported(t, "step")
  /\ ~InMain(rip[Main]) /\ InSomeModule(rip[Main])
  /\ InMain(ReturnAddress)
  /\ SetTF(FALSE)
  /\ ArmBp(ReturnAddress)
  /\ Continue(t)
  /\ UNCHANGED <<cpu, entry_bp, mode, log, verdict, outside>>

RunFree(t) ==
  /\ Reported(t, "step")
  /\ ~InMain(rip[Main]) /\ InSomeModule(rip[Main])
  /\ ~InMain(ReturnAddress)
  /\ SetTF(FALSE)
  /\ Continue(t)
  /\ UNCHANGED <<cpu, mem, plant, mode, log, verdict, outside>>

PassCode(t) ==
  /\ Reported(t, "benign")
  /\ Continue(t)
  /\ UNCHANGED <<cpu, tf, mem, plant, mode, log, verdict, outside>>

RealException(t) ==
  /\ Reported(t, "fault")
  /\ Stop("fault")
  /\ UNCHANGED <<cpu, tf, mem, plant, mode, log, outside>>

(* The clock is read before each wait, so it may win over a raised event.  *)
Timeout ==
  /\ verdict = "none"
  /\ Stop("timeout")
  /\ UNCHANGED <<cpu, tf, mem, plant, mode, log, outside>>

-----------------------------------------------------------------------------
Program ==
  \/ LoadDll \/ LoaderBreak \/ StartMain
  \/ \E t \in Threads :
       \/ Jump(t) \/ Call(t) \/ Ret(t) \/ DllStep(t) \/ HitInt3(t)
       \/ Callback(t) \/ Unwind(t) \/ Benign(t) \/ Fault(t) \/ Exit(t)

Handle(t) ==
  \/ CreateProcess(t) \/ LoadDllEvent(t) \/ ExitProcess(t)
  \/ FirstBp(t) \/ EntryBp(t) \/ OneShotBp(t) \/ ForeignBp(t)
  \/ StepInImage(t) \/ WildBranch(t) \/ StepOver(t) \/ RunFree(t)
  \/ PassCode(t) \/ RealException(t)

Next == Program \/ (\E t \in Threads : Handle(t)) \/ Timeout

Spec == Init /\ [][Next]_vars

-----------------------------------------------------------------------------
(* The image holds no INT3 but the tracer's own, and the tracer knows what *)
(* each of them covers: a byte is planted iff it is at entry_bp or at      *)
(* bp_addr, and restoring it gives the program back (arm_bp, clear_bp and  *)
(* the entry breakpoint, dbg_trace.py 373-386 and 484-540).                *)
BytesAccounted ==
  /\ \A a \in MainCode : mem[a] = "int3" <=> a \in {entry_bp, bp_addr}
  /\ bp_orig = "insn"

(* The trap flag and the one-shot breakpoint are never set together, so an *)
(* unfired breakpoint is never overwritten by the next (dbg_trace.py       *)
(* 542-551 and 816-826).                                                   *)
OneWayBack ==
  \A t \in Threads : tf[t] \/ event[t][1] = "step" => bp_addr = Absent

(* No thread is left inside an instruction that was under a breakpoint:    *)
(* "rewind past int3" (the comment at dbg_trace.py 545), "we restore the   *)
(* byte, re-arm TF and continue" (15-16).                                  *)
Transparent == \A t \in Threads : rip[t] = Skid => event[t][1] = "break"

(* Whatever the other threads run into, and although their breakpoints are *)
(* answered on the context of the main thread, that thread itself is never *)
(* left inside an instruction (dbg_trace.py 528-551).                      *)
MainWhole == rip[Main] = Skid => event[Main][1] = "break"

(* Once tracing began at the entry, the main thread is never in or just    *)
(* below the image without the flag, an event or a breakpoint that brings  *)
(* the tracer back (dbg_trace.py 541-551 and 814-826).                     *)
NeverLost ==
  /\ entry_rva # Absent /\ tracing
  /\ verdict = "none" /\ event[Main] = NoEvent
  =>
    /\ InImage(Main) => tf[Main] \/ rip[Main] = bp_addr
    /\ InDll(Main) /\ InMain(ReturnAddress) =>
         tf[Main] \/ bp_addr = ReturnAddress

(* How many of the places from the i-th on were reached from inside.       *)
Behind(places, i) ==
  Cardinality({j \in i .. Len(places) : places[j].inner})

(* What was reached from inside is at the end of the ring, in that order.  *)
InRing(places, r) ==
  \A i \in DOMAIN places :
    places[i].inner =>
      LET k == Behind(places, i)
      IN k <= Len(r) /\ r[Len(r) - k + 1] = places[i].at

(* With the entry known, the instructions that the main thread reached     *)
(* from inside the image are in the ring, none missing and none out of     *)
(* order.  Those it entered the image at, the entry point and the first    *)
(* after each call out, are not: they run without a step before them, so   *)
(* the docstring's "record each instruction" does not hold (dbg_trace.py   *)
(* 9 and 528-562; EachRecorded).                                           *)
RingFaithful ==
  entry_rva # Absent /\ verdict = "none" /\ event[Main][1] # "step" =>
    InRing(trail, ring)

(* The docstring at dbg_trace.py 9, which the code does not keep.          *)
EachRecorded ==
  entry_rva # Absent /\ verdict = "none" /\ event[Main][1] # "step" =>
    \A i \in DOMAIN trail : \E j \in DOMAIN ring : ring[j] = trail[i].at

(* With the entry known, a bad call below every module, such as a call of  *)
(* NULL, is reported where it lands, before it faults.  Above the base of  *)
(* a module the test of line 797 mostly takes it for that module.          *)
LowCallCaught ==
  entry_rva # Absent /\ verdict = "fault" /\ rip[Main] \in Wild =>
    \E m \in modules : m[1] <= rip[Main]

(* "if RIP is in NO loaded module this is a wild indirect branch ... stop  *)
(* BEFORE the execute-fault" (the comment at dbg_trace.py 794-796): every  *)
(* bad call is reported where it lands, ...                                *)
WildCaught ==
  entry_rva # Absent /\ verdict = "fault" =>
    \A t \in Threads : rip[t] \notin Wild

(* ... and the process is stopped for a wild branch only when there is     *)
(* one.  Neither is so in the code.                                        *)
WildOnlyIfUnmapped == verdict = "wild" => rip[Main] \in Wild
=============================================================================
