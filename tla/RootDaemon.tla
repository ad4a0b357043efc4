----------------------------- MODULE RootDaemon -----------------------------
(***************************************************************************)
(* The root-cause daemon (dbg_root.py) and the process it debugs.          *)
(*                                                                         *)
(* The daemon plants INT3 probes, answers every debug event, jumps through *)
(* first-chance faults and stops at a fault with a verdict.  It reads and  *)
(* writes the context of the main thread whichever thread an event is of.  *)
(* Addresses: 1 .. Size is the image, 0 is unmapped, Dll is any address of *)
(* a DLL.  An instruction is one address; Skid means one byte past the     *)
(* first of an instruction.                                                *)
(***************************************************************************)
EXTENDS Naturals, Sequences, FiniteSets

CONSTANTS
  Thread, Main,
  Size,          \* number of instructions in the image
  Watch,         \* self.watch: the instructions with a probe
  OwnInt3,       \* instructions of the program that are INT3
  LoaderSite,    \* the INT3 that is taken for one of the loader (main+0x877A)
  FaultCode,     \* FaultCode[a]: the exception instruction a raises, or None
  Handled,       \* instructions whose exception the program handles itself
  JumpThrough,   \* JUMP_THROUGH
  Terminal,      \* TERMINAL
  trace, no_jump, max_exc, trace_cap,   \* options of the daemon
  None,
  MaxStack,      \* bound on the stack of a thread
  MaxHits        \* bound on the probe hits

Dll == Size + 1        \* code of a DLL
BadDll == Size + 2     \* code of a DLL that faults
Image == 1 .. Size
Address == 0 .. BadDll
Code == {FaultCode[a] : a \in DOMAIN FaultCode} \ {None}

ASSUME ConstAssumption ==
  /\ Main \in Thread /\ Size \in Nat \ {0}
  /\ Watch \subseteq Image /\ OwnInt3 \subseteq Image /\ Handled \subseteq Image
  /\ DOMAIN FaultCode = Address /\ FaultCode[0] # None /\ FaultCode[BadDll] # None
  /\ FaultCode[Dll] = None
  /\ JumpThrough \subseteq Terminal
  /\ trace \in BOOLEAN /\ no_jump \in BOOLEAN
  /\ max_exc \in Nat /\ trace_cap \in Nat /\ MaxStack \in Nat /\ MaxHits \in Nat

VARIABLES
  \* the process
  boot,        \* "new", "created", "up" or "down"
  rip, stack,  \* of each thread: instruction, return addresses
  skid,        \* threads one byte past the first of their instruction
  tf,          \* threads with the trap flag set
  event,       \* event[t]: the debug event t waits in, or NoEvent
  planted,     \* instructions whose first byte the daemon has replaced
  \* the daemon
  watch_orig,  \* _watch_orig: probes whose byte it has saved
  initial_bp, loader_bp_done, tracing,
  exc_count, stuck,
  probe_hits, trace_ring,
  verdict,
  \* history
  ran          \* ran[t]: instructions of the image that t has executed

process == <<boot, rip, stack, skid, tf, event, planted>>
daemon == <<watch_orig, initial_bp, loader_bp_done, tracing, exc_count, stuck,
            probe_hits, trace_ring, verdict>>
vars == <<process, daemon, ran>>

NoEvent == [kind |-> "none", at |-> 0, code |-> None]
Event(kind, at, code) == [kind |-> kind, at |-> at, code |-> code]
NoVerdict == [kind |-> "none", site |-> 0, at |-> 0]

Init ==
  /\ boot = "new"
  /\ rip = [t \in Thread |-> Dll] /\ stack = [t \in Thread |-> <<>>]
  /\ skid = {} /\ tf = {} /\ event = [t \in Thread |-> NoEvent] /\ planted = {}
  /\ watch_orig = {} /\ initial_bp = FALSE /\ loader_bp_done = FALSE
  /\ tracing = trace /\ exc_count = 0 /\ stuck = <<>>
  /\ probe_hits = <<>> /\ trace_ring = <<>> /\ verdict = NoVerdict
  /\ ran = [t \in Thread |-> {}]

(***************************************************************************)
(* The process.                                                            *)
(***************************************************************************)
Free(t) == boot = "up" /\ event[t] = NoEvent
Raise(t, e) == event' = [event EXCEPT ![t] = e]
quiet == <<boot, planted, daemon>>

(* The create event, before anything runs; then the breakpoint of ntdll.   *)
Created ==
  /\ boot = "new" /\ boot' = "created"
  /\ Raise(Main, Event("create", 0, None))
  /\ UNCHANGED <<rip, stack, skid, tf, planted, daemon, ran>>

LoaderBreak ==
  /\ boot = "created" /\ event[Main] = NoEvent
  /\ boot' = "up"
  /\ Raise(Main, Event("break", Dll, None))
  /\ UNCHANGED <<rip, stack, skid, tf, planted, daemon, ran>>

(* A thread meets an INT3 and stops behind it.  One of the program itself  *)
(* is an instruction of its own.                                           *)
Int3(t) ==
  /\ Free(t) /\ rip[t] \in planted \union OwnInt3 /\ t \notin skid
  /\ Raise(t, Event("break", rip[t], None))
  /\ IF rip[t] \in planted
       THEN skid' = skid \union {t} /\ UNCHANGED rip
       ELSE rip' = [rip EXCEPT ![t] = @ + 1] /\ UNCHANGED skid
  /\ UNCHANGED <<stack, tf, quiet, ran>>

(* An instruction that faults does so each time it is executed.            *)
Faulting(t) ==
  /\ Free(t) /\ rip[t] \notin planted \union OwnInt3 /\ t \notin skid
  /\ FaultCode[rip[t]] # None
  /\ Raise(t, Event("fault", rip[t], FaultCode[rip[t]]))
  /\ ran' = [ran EXCEPT ![t] = @ \union ({rip[t]} \intersect Image)]
  /\ UNCHANGED <<rip, stack, skid, tf, quiet>>

(* Any other instruction; with the trap flag on it reports the next one.   *)
(* What a thread left inside an instruction would run is not modelled.     *)
Goto(t, a, s) ==
  /\ rip' = [rip EXCEPT ![t] = a]
  /\ stack' = [stack EXCEPT ![t] = s]
  /\ IF t \in tf THEN tf' = tf \ {t} /\ Raise(t, Event("step", a, None))
                 ELSE UNCHANGED <<tf, event>>
  /\ ran' = [ran EXCEPT ![t] = @ \union ({rip[t]} \intersect Image)]
  /\ UNCHANGED <<skid, quiet>>

Runs(t) ==
  /\ Free(t) /\ FaultCode[rip[t]] = None
  /\ rip[t] \notin planted \union OwnInt3 /\ t \notin skid

Jump(t, a) == Runs(t) /\ rip[t] \in Image /\ a \in Image \union {0} /\ Goto(t, a, stack[t])
Call(t, a) ==
  /\ Runs(t) /\ rip[t] \in 1 .. Size - 1 /\ Len(stack[t]) < MaxStack
  /\ Goto(t, a, <<rip[t] + 1>> \o stack[t])
Ret(t) == Runs(t) /\ stack[t] # <<>> /\ Goto(t, Head(stack[t]), Tail(stack[t]))
Start(t) == Runs(t) /\ rip[t] = Dll /\ stack[t] = <<>> /\ Goto(t, 1, <<>>)

Exit(t) ==
  /\ Free(t) /\ t = Main /\ rip[t] = Dll /\ stack[t] = <<>>
  /\ Raise(t, Event("exit", 0, None))
  /\ UNCHANGED <<boot, rip, stack, skid, tf, planted, daemon, ran>>

Run(t) ==
  \/ Int3(t) \/ Faulting(t) \/ Ret(t) \/ Start(t) \/ Exit(t)
  \/ \E a \in Address : Jump(t, a) \/ Call(t, a)

(***************************************************************************)
(* The daemon: one branch of the loop in run() for each event.             *)
(***************************************************************************)
Takes(t, kind) ==
  /\ boot # "down" /\ verdict = NoVerdict
  /\ event[t].kind = kind
Continue(t) == event' = [event EXCEPT ![t] = NoEvent]
SetTraceFlag(on) == tf' = IF on THEN tf \union {Main} ELSE tf \ {Main}
still == <<boot, rip, stack, ran>>

(* Mutant: the bytes are forgotten once the INT3s are written.             *)
CreateProcessEmpty(t) ==
  /\ Takes(t, "create")
  /\ planted' = Watch \ OwnInt3 /\ watch_orig' = {}
  /\ IF tracing THEN SetTraceFlag(TRUE) ELSE UNCHANGED tf
  /\ Continue(t)
  /\ UNCHANGED <<still, skid, initial_bp, loader_bp_done, tracing, exc_count, stuck,
                 probe_hits, trace_ring, verdict>>

CreateProcess(t) ==
  /\ Takes(t, "create")
  /\ planted' = Watch \ OwnInt3 /\ watch_orig' = Watch
  /\ IF tracing THEN SetTraceFlag(TRUE) ELSE UNCHANGED tf
  /\ Continue(t)
  /\ UNCHANGED <<still, skid, initial_bp, loader_bp_done, tracing, exc_count, stuck,
                 probe_hits, trace_ring, verdict>>

ExitProcess(t) ==
  /\ Takes(t, "exit")
  /\ boot' = "down"
  /\ UNCHANGED <<rip, stack, skid, tf, event, planted, daemon, ran>>

(* The first breakpoint is the one of ntdll.                               *)
InitialBreak(t) ==
  /\ Takes(t, "break") /\ ~initial_bp
  /\ initial_bp' = TRUE
  /\ IF tracing THEN SetTraceFlag(TRUE) ELSE UNCHANGED tf
  /\ Continue(t)
  /\ UNCHANGED <<still, skid, planted, watch_orig, loader_bp_done, tracing, exc_count, stuck,
                 probe_hits, trace_ring, verdict>>

IsProbe(a) == (loader_bp_done \/ a # LoaderSite) /\ a \in watch_orig

(* Mutant: the main thread is left behind the INT3.                        *)
ProbeBreakNoRewind(t) ==
  /\ Takes(t, "break") /\ initial_bp /\ IsProbe(event[t].at)
  /\ Len(probe_hits) < MaxHits
  /\ planted' = planted \ {event[t].at}
  /\ probe_hits' = Append(probe_hits, event[t].at)
  /\ Continue(t)
  /\ UNCHANGED <<still, skid, tf, watch_orig, initial_bp, loader_bp_done, tracing, exc_count,
                 stuck, trace_ring, verdict>>

(* Mutant: every probe is taken out with the one that is hit.              *)
ProbeBreakAll(t) ==
  /\ Takes(t, "break") /\ initial_bp /\ IsProbe(event[t].at)
  /\ Len(probe_hits) < MaxHits
  /\ planted' = {}
  /\ probe_hits' = Append(probe_hits, event[t].at)
  /\ rip' = [rip EXCEPT ![Main] = event[t].at]
  /\ skid' = skid \ {Main}
  /\ Continue(t)
  /\ UNCHANGED <<boot, stack, ran, tf, watch_orig, initial_bp, loader_bp_done, tracing,
                 exc_count, stuck, trace_ring, verdict>>

(* _handle_probe_break: the byte goes back, and the main thread to it.     *)
ProbeBreak(t) ==
  /\ Takes(t, "break") /\ initial_bp /\ IsProbe(event[t].at)
  /\ Len(probe_hits) < MaxHits
  /\ planted' = planted \ {event[t].at}
  /\ probe_hits' = Append(probe_hits, event[t].at)
  /\ rip' = [rip EXCEPT ![Main] = event[t].at]
  /\ skid' = skid \ {Main}
  /\ Continue(t)
  /\ UNCHANGED <<boot, stack, ran, tf, watch_orig, initial_bp, loader_bp_done, tracing,
                 exc_count, stuck, trace_ring, verdict>>

OtherBreak(t) ==
  /\ Takes(t, "break") /\ initial_bp /\ ~IsProbe(event[t].at)
  /\ loader_bp_done' = (loader_bp_done \/ Watch # {})
  /\ Continue(t)
  /\ UNCHANGED <<still, skid, tf, planted, watch_orig, initial_bp, tracing, exc_count, stuck,
                 probe_hits, trace_ring, verdict>>

(* _record_step, on the context of the main thread.                        *)
LastOf(s) == s[Len(s)]
Kept(s) == IF Len(s) > trace_cap THEN Tail(s) ELSE s
Recorded ==
  IF rip[Main] \in Image \/ (trace_ring # <<>> /\ LastOf(trace_ring) \notin Image)
    THEN Kept(Append(trace_ring, rip[Main]))
    ELSE trace_ring

Step(t) ==
  /\ Takes(t, "step")
  /\ IF tracing THEN trace_ring' = Recorded /\ SetTraceFlag(TRUE)
                ELSE UNCHANGED <<trace_ring, tf>>
  /\ Continue(t)
  /\ UNCHANGED <<still, skid, planted, watch_orig, initial_bp, loader_bp_done, tracing,
                 exc_count, stuck, probe_hits, verdict>>

(* How often the same fault has been seen; RSP is the depth of the stack.  *)
Key(code) == <<rip[Main], Len(stack[Main]), code>>
Times(code) == Cardinality({i \in DOMAIN stuck : stuck[i] = Key(code)}) + 1

(* _find_bad_indirect_in_trace: which instructions of the ring look like a *)
(* transfer through a bad register is left open.                           *)
BadIndirect == {trace_ring[i] : i \in DOMAIN trace_ring} \intersect Image
FirstReturn ==
  {stack[Main][i] : i \in {j \in DOMAIN stack[Main] :
      stack[Main][j] \in Image /\ \A h \in 1 .. j - 1 : stack[Main][h] \notin Image}}
Verdict(kind, site) == [kind |-> kind, site |-> site, at |-> rip[Main]]

(* _analyze: the site is the fault itself if it is in the image, else a    *)
(* bad transfer of the ring, else the call before the first return address *)
(* on the stack.                                                           *)
Analyze ==
  IF rip[Main] \in Image THEN {Verdict("direct", rip[Main])}
  ELSE {Verdict("null-rip", a) : a \in IF rip[Main] = 0 THEN BadIndirect ELSE {}}
       \union {Verdict(IF rip[Main] = 0 THEN "null-rip" ELSE "downstream", a - 1) :
                 a \in FirstReturn}
       \union IF FirstReturn = {} THEN {Verdict("unknown", rip[Main])} ELSE {}

MayJump(code) ==
  /\ ~no_jump /\ code \in JumpThrough
  /\ exc_count + 1 < max_exc
  /\ Times(code) < 3

(* Mutant: only faults that end in a verdict are counted.                  *)
FaultUncounted(t) ==
  LET code == event[t].code IN
  /\ Takes(t, "fault") /\ code \in Terminal
  /\ trace_ring' = Recorded
  /\ tracing' = (tracing \/ Times(code) >= 3)
  /\ \/ /\ MayJump(code)
        /\ Continue(t)
        /\ UNCHANGED <<tf, verdict, boot, exc_count, stuck>>
     \/ /\ ~MayJump(code)
        /\ exc_count' = exc_count + 1 /\ stuck' = Append(stuck, Key(code))
        /\ SetTraceFlag(FALSE) /\ verdict' \in Analyze /\ boot' = "down"
        /\ UNCHANGED event
  /\ UNCHANGED <<rip, stack, skid, planted, watch_orig, initial_bp, loader_bp_done,
                 probe_hits, ran>>

(* A jump is DBG_CONTINUE: the instruction is executed again.              *)
Fault(t) ==
  LET code == event[t].code IN
  /\ Takes(t, "fault") /\ code \in Terminal
  /\ exc_count' = exc_count + 1
  /\ trace_ring' = Recorded
  /\ stuck' = Append(stuck, Key(code))
  /\ tracing' = (tracing \/ Times(code) >= 3)
  /\ \/ /\ MayJump(code)
        /\ Continue(t)
        /\ UNCHANGED <<tf, verdict, boot>>
     \/ /\ ~MayJump(code)
        /\ SetTraceFlag(FALSE) /\ verdict' \in Analyze /\ boot' = "down"
        /\ UNCHANGED event
  /\ UNCHANGED <<rip, stack, skid, planted, watch_orig, initial_bp, loader_bp_done,
                 probe_hits, ran>>

(* Any other exception code ends in a verdict at once.                     *)
OtherFault(t) ==
  /\ Takes(t, "fault") /\ event[t].code \notin Terminal
  /\ SetTraceFlag(FALSE) /\ verdict' \in Analyze /\ boot' = "down"
  /\ UNCHANGED <<rip, stack, skid, event, planted, watch_orig, initial_bp, loader_bp_done,
                 tracing, exc_count, stuck, probe_hits, trace_ring, ran>>

Answer(t) ==
  \/ CreateProcess(t) \/ ExitProcess(t) \/ InitialBreak(t) \/ ProbeBreak(t)
  \/ OtherBreak(t) \/ Step(t) \/ Fault(t) \/ OtherFault(t)

Next ==
  \/ Created \/ LoaderBreak
  \/ \E t \in Thread : Run(t) \/ Answer(t)
Spec == Init /\ [][Next]_vars

(* The daemon answers every event; a thread at an instruction that faults  *)
(* executes it.                                                            *)
FairSpec == Spec /\ \A t \in Thread : WF_vars(Answer(t)) /\ WF_vars(Faulting(t))

(***************************************************************************)
(* Properties.                                                             *)
(***************************************************************************)
Hits == {probe_hits[i] : i \in DOMAIN probe_hits}

TypeOK ==
  /\ boot \in {"new", "created", "up", "down"}
  /\ rip \in [Thread -> Address] /\ stack \in [Thread -> Seq(Address)]
  /\ skid \subseteq Thread /\ tf \subseteq {Main}
  /\ event \in [Thread -> [kind : {"none", "create", "break", "step", "fault", "exit"},
                            at : Address, code : Code \union {None}]]
  /\ planted \subseteq Image /\ watch_orig \subseteq Watch
  /\ initial_bp \in BOOLEAN /\ loader_bp_done \in BOOLEAN /\ tracing \in BOOLEAN
  /\ exc_count \in Nat
  /\ probe_hits \in Seq(Watch) /\ trace_ring \in Seq(Address) /\ Len(trace_ring) <= trace_cap
  /\ verdict \in [kind : {"none", "direct", "null-rip", "downstream", "unknown"},
                  site : Address, at : Address]

(* The INT3s in the image are those of the probes that have not been hit,  *)
(* and the daemon has the byte of each.                                    *)
ProbesAccounted ==
  /\ planted \subseteq watch_orig
  /\ boot \in {"up", "down"} => planted = (Watch \ OwnInt3) \ Hits

(* "NEVER HIT" in the exit report is true: no thread has executed an       *)
(* instruction with a probe that was not reported first.                   *)
NeverHitIsTrue == \A t \in Thread : ran[t] \intersect Watch \subseteq Hits

(* A probe is reported once.                                               *)
HitOnce == \A i, j \in DOMAIN probe_hits : probe_hits[i] = probe_hits[j] => i = j

(* Nobody goes on inside an instruction: when a probe is met its byte is   *)
(* restored and "ctx.Rip = ea" sets the thread back to it (dbg_root.py     *)
(* 503-532).  It is not so of a thread that is not the main one, whose     *)
(* context the daemon does not touch.                                      *)
Transparent == \A t \in Thread : Free(t) => t \notin skid

(* Whatever the other threads run into, and although their probes are      *)
(* answered on the context of the main thread, that thread itself goes on  *)
(* at whole instructions only.                                             *)
MainWhole == Free(Main) => Main \notin skid

(* No thread stays at a fault for ever that no handler of the program      *)
(* takes: jumping through it comes to an end, with a verdict, although the *)
(* faults of all threads are counted at the RIP and RSP of the main one.   *)
AtFault(t) ==
  /\ boot = "up" /\ t \notin skid
  /\ rip[t] \notin planted \union OwnInt3 \union Handled
  /\ FaultCode[rip[t]] # None
FaultEnds == \A t \in Thread : []<>(boot = "down" \/ ~AtFault(t))

(* Exceptions the program handles are jumped through (dbg_root.py 6): no   *)
(* verdict is about one.                                                   *)
VerdictIsFatal == verdict # NoVerdict => verdict.at \notin Handled

(* The ring holds a snapshot of each fault, the tail outside the image     *)
(* included (_record_step).                                                *)
FaultRecorded ==
  verdict # NoVerdict /\ stuck # <<>> /\ LastOf(stuck)[1] = verdict.at =>
    trace_ring # <<>> /\ LastOf(trace_ring) = verdict.at
=============================================================================
