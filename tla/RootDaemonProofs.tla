-------------------------- MODULE RootDaemonProofs --------------------------
(***************************************************************************)
(* Theorems about RootDaemon for any image, probes, faults and threads.    *)
(***************************************************************************)
EXTENDS RootDaemon, TLAPS

Kinds == {"none", "create", "break", "step", "fault", "exit"}
EventType == [kind : Kinds, at : Address, code : Code \union {None}]

LEMMA Addresses ==
  /\ Image \subseteq Address /\ Dll \in Address /\ BadDll \in Address /\ 0 \in Address
  /\ Dll \notin Image /\ 0 \notin Image
  /\ \A a \in Image : a + 1 \in Address /\ a - 1 \in Address
  BY ConstAssumption DEF Image, Address, Dll, BadDll

LEMMA Codes == \A a \in Address : FaultCode[a] \in Code \union {None}
  BY ConstAssumption DEF Code

LEMMA InitType == Init => TypeOK
<1> SUFFICES ASSUME Init PROVE TypeOK
  OBVIOUS
<1>1. /\ rip \in [Thread -> Address] /\ stack \in [Thread -> Seq(Address)]
      /\ tf = {} /\ skid = {} /\ planted = {} /\ watch_orig = {}
      /\ probe_hits \in Seq(Watch) /\ trace_ring \in Seq(Address) /\ Len(trace_ring) = 0
      /\ exc_count = 0 /\ boot = "new"
      /\ initial_bp = FALSE /\ loader_bp_done = FALSE /\ tracing \in BOOLEAN
  BY Addresses, ConstAssumption DEF Init
<1>2. event \in [Thread -> EventType]
  BY Addresses DEF Init, NoEvent, EventType, Kinds
<1>3. verdict \in [kind : {"none", "direct", "null-rip", "downstream", "unknown"},
                   site : Address, at : Address]
  BY Addresses DEF Init, NoVerdict
<1>4. Len(trace_ring) <= trace_cap
  BY <1>1, ConstAssumption
<1>5. QED
  BY <1>1, <1>2, <1>3, <1>4 DEF TypeOK, EventType, Kinds

(* The parts of the type invariant that the steps of the process, and      *)
(* those that the answers of the daemon disturb.                           *)
ProcessType ==
  /\ rip \in [Thread -> Address] /\ stack \in [Thread -> Seq(Address)]
  /\ skid \subseteq Thread /\ tf \subseteq {Main}

LEMMA EventSet ==
  ASSUME TypeOK, NEW t \in Thread, NEW e \in EventType, event' = [event EXCEPT ![t] = e]
  PROVE  event' \in [Thread -> EventType]
  BY DEF TypeOK, EventType, Kinds

LEMMA GotoType ==
  ASSUME TypeOK, NEW t \in Thread, NEW a \in Address, NEW s \in Seq(Address), Goto(t, a, s)
  PROVE  TypeOK'
<1>1. rip' \in [Thread -> Address] /\ stack' \in [Thread -> Seq(Address)]
  BY DEF Goto, TypeOK
<1>2. tf' \subseteq {Main} /\ event' \in [Thread -> EventType]
  <2>1. CASE t \in tf
    <3>1. Event("step", a, None) \in EventType
      BY DEF Event, EventType, Kinds
    <3>2. tf' = tf \ {t} /\ event' = [event EXCEPT ![t] = Event("step", a, None)]
      BY <2>1 DEF Goto, Raise
    <3>3. QED
      BY <3>1, <3>2, EventSet DEF TypeOK
  <2>2. CASE t \notin tf
    BY <2>2 DEF Goto, TypeOK, EventType, Kinds
  <2>3. QED
    BY <2>1, <2>2
<1>3. UNCHANGED <<skid, boot, planted, daemon>>
  BY DEF Goto, quiet
<1>4. QED
  BY <1>1, <1>2, <1>3 DEF TypeOK, EventType, Kinds, daemon

LEMMA RunType ==
  ASSUME TypeOK, NEW t \in Thread, Run(t)
  PROVE  TypeOK'
<1>1. rip[t] \in Address /\ stack[t] \in Seq(Address)
  BY DEF TypeOK
<1>2. CASE Int3(t)
  <2>1. Event("break", rip[t], None) \in EventType
    BY <1>1 DEF Event, EventType, Kinds
  <2>2. event' \in [Thread -> EventType]
    BY <1>2, <2>1, EventSet DEF Int3, Raise
  <2>3. rip' \in [Thread -> Address] /\ skid' \subseteq Thread
    <3>1. rip[t] \notin planted => rip[t] + 1 \in Address
      BY <1>2, Addresses, ConstAssumption DEF Int3
    <3>2. QED
      BY <1>2, <3>1 DEF Int3, TypeOK
  <2>4. QED
    BY <1>2, <2>2, <2>3 DEF Int3, TypeOK, EventType, Kinds, quiet, daemon
<1>3. CASE Faulting(t)
  <2>1. Event("fault", rip[t], FaultCode[rip[t]]) \in EventType
    BY <1>1, Codes DEF Event, EventType, Kinds
  <2>2. event' \in [Thread -> EventType]
    BY <1>3, <2>1, EventSet DEF Faulting, Raise
  <2>3. QED
    BY <1>3, <2>2 DEF Faulting, TypeOK, EventType, Kinds, quiet, daemon
<1>4. CASE Exit(t)
  <2>1. Event("exit", 0, None) \in EventType
    BY Addresses DEF Event, EventType, Kinds
  <2>2. event' \in [Thread -> EventType]
    BY <1>4, <2>1, EventSet DEF Exit, Raise
  <2>3. QED
    BY <1>4, <2>2 DEF Exit, TypeOK, EventType, Kinds, daemon
<1>5. CASE Ret(t)
  <2>1. Head(stack[t]) \in Address /\ Tail(stack[t]) \in Seq(Address)
    BY <1>1, <1>5 DEF Ret
  <2>2. QED
    BY <1>5, <2>1, GotoType DEF Ret
<1>6. CASE Start(t)
  <2>1. 1 \in Address /\ <<>> \in Seq(Address)
    BY ConstAssumption DEF Address, BadDll
  <2>2. QED
    BY <1>6, <2>1, GotoType DEF Start
<1>7. ASSUME NEW a \in Address, Jump(t, a) PROVE TypeOK'
  BY <1>1, <1>7, GotoType DEF Jump
<1>8. ASSUME NEW a \in Address, Call(t, a) PROVE TypeOK'
  <2>1. rip[t] + 1 \in Address
    BY <1>8, ConstAssumption DEF Call, Address, BadDll
  <2>2. <<rip[t] + 1>> \o stack[t] \in Seq(Address)
    BY <1>1, <2>1
  <2>3. QED
    BY <1>8, <2>2, GotoType DEF Call
<1>9. QED
  BY <1>2, <1>3, <1>4, <1>5, <1>6, <1>7, <1>8 DEF Run

LEMMA RingType ==
  ASSUME TypeOK
  PROVE  Recorded \in Seq(Address) /\ Len(Recorded) <= trace_cap
<1>1. rip[Main] \in Address /\ trace_ring \in Seq(Address) /\ Len(trace_ring) <= trace_cap
      /\ trace_cap \in Nat
  BY ConstAssumption DEF TypeOK
<1> DEFINE longer == Append(trace_ring, rip[Main])
<1>2. longer \in Seq(Address) /\ Len(longer) = Len(trace_ring) + 1
  BY <1>1
<1>3. Kept(longer) \in Seq(Address) /\ Len(Kept(longer)) <= trace_cap
  <2>1. CASE Len(longer) > trace_cap
    <3> HIDE DEF longer
    <3>1. longer # <<>>
      BY <1>1, <1>2
    <3>2. Tail(longer) \in Seq(Address) /\ Len(Tail(longer)) = Len(longer) - 1
      BY <1>2, <3>1
    <3>3. Len(longer) \in Nat /\ Len(longer) - 1 <= trace_cap
      BY <1>1, <1>2
    <3>4. QED
      BY <2>1, <3>2, <3>3 DEF Kept
  <2>2. CASE ~(Len(longer) > trace_cap)
    <3> HIDE DEF longer
    <3>1. QED
      BY <1>1, <1>2, <2>2 DEF Kept
  <2>3. QED
    BY <2>1, <2>2
<1>4. QED
  BY <1>1, <1>3 DEF Recorded

LEMMA VerdictType ==
  ASSUME TypeOK
  PROVE  \A v \in Analyze :
           v \in [kind : {"none", "direct", "null-rip", "downstream", "unknown"},
                  site : Address, at : Address]
<1>1. rip[Main] \in Address /\ stack[Main] \in Seq(Address)
  BY ConstAssumption DEF TypeOK
<1>2. BadIndirect \subseteq Address
  BY Addresses DEF BadIndirect
<1>3. \A a \in FirstReturn : a - 1 \in Address
  BY Addresses DEF FirstReturn
<1>4. QED
  BY <1>1, <1>2, <1>3 DEF Analyze, Verdict

LEMMA AnswerType ==
  ASSUME TypeOK, NEW t \in Thread, Answer(t)
  PROVE  TypeOK'
<1> USE DEF Kinds, EventType
<1>1. Continue(t) => event' \in [Thread -> EventType]
  <2>1. NoEvent \in EventType
    BY Addresses DEF NoEvent
  <2>2. QED
    BY <2>1, EventSet DEF Continue
<1>2. \A on \in BOOLEAN : SetTraceFlag(on) => tf' \subseteq {Main}
  BY DEF SetTraceFlag, TypeOK
<1>3. event[t].at \in Address
  BY DEF TypeOK
<1>4. CASE CreateProcess(t)
  <2>1. tf' \subseteq {Main}
    BY <1>2, <1>4 DEF CreateProcess, TypeOK
  <2>2. planted' \subseteq Image /\ watch_orig' \subseteq Watch
    BY <1>4, ConstAssumption DEF CreateProcess
  <2>3. QED
    BY <1>1, <1>4, <2>1, <2>2 DEF CreateProcess, still, TypeOK
<1>5. CASE ExitProcess(t)
  BY <1>5 DEF ExitProcess, TypeOK, daemon
<1>6. CASE InitialBreak(t)
  <2>1. tf' \subseteq {Main}
    BY <1>2, <1>6 DEF InitialBreak, TypeOK
  <2>2. QED
    BY <1>1, <1>6, <2>1 DEF InitialBreak, still, TypeOK
<1>7. CASE ProbeBreak(t)
  <2>1. event[t].at \in Watch
    BY <1>7 DEF ProbeBreak, IsProbe, TypeOK
  <2>2. probe_hits' \in Seq(Watch) /\ rip' \in [Thread -> Address] /\ planted' \subseteq Image
        /\ skid' \subseteq Thread
    <3>1. /\ probe_hits' = Append(probe_hits, event[t].at) /\ planted' \subseteq planted
          /\ skid' \subseteq skid /\ rip' = [rip EXCEPT ![Main] = event[t].at]
      BY <1>7 DEF ProbeBreak
    <3>2. probe_hits \in Seq(Watch) /\ rip \in [Thread -> Address]
      BY DEF TypeOK
    <3>3. probe_hits' \in Seq(Watch)
      BY <2>1, <3>1, <3>2
    <3>4. rip' \in [Thread -> Address]
      BY <1>3, <3>1, <3>2
    <3>5. QED
      BY <3>1, <3>3, <3>4 DEF TypeOK
  <2>3. QED
    BY <1>1, <1>7, <2>2 DEF ProbeBreak, TypeOK
<1>8. CASE OtherBreak(t)
  <2>1. loader_bp_done' \in BOOLEAN
    BY <1>8 DEF OtherBreak, TypeOK
  <2>2. QED
    BY <1>1, <1>8, <2>1 DEF OtherBreak, still, TypeOK
<1>9. CASE Step(t)
  <2>1. tf' \subseteq {Main}
    BY <1>2, <1>9 DEF Step, TypeOK
  <2>2. trace_ring' \in Seq(Address) /\ Len(trace_ring') <= trace_cap
    BY <1>9, RingType DEF Step, TypeOK
  <2>3. QED
    BY <1>1, <1>9, <2>1, <2>2 DEF Step, still, TypeOK
<1>10. CASE Fault(t)
  <2>1. trace_ring' \in Seq(Address) /\ Len(trace_ring') <= trace_cap
    BY <1>10, RingType DEF Fault
  <2>2. exc_count' \in Nat
    BY <1>10 DEF Fault, TypeOK
  <2>3. tracing' \in BOOLEAN
    BY <1>10 DEF Fault, TypeOK
  <2>4. /\ tf' \subseteq {Main} /\ boot' \in {boot, "down"}
        /\ (verdict' = verdict \/ verdict' \in Analyze)
        /\ (event' = event \/ Continue(t))
    BY <1>2, <1>10 DEF Fault, TypeOK
  <2>5. verdict' \in [kind : {"none", "direct", "null-rip", "downstream", "unknown"},
                      site : Address, at : Address]
    BY <2>4, VerdictType DEF TypeOK
  <2>6. event' \in [Thread -> EventType]
    BY <1>1, <2>4 DEF TypeOK
  <2>7. UNCHANGED <<rip, stack, skid, planted, watch_orig, initial_bp, loader_bp_done, probe_hits>>
    BY <1>10 DEF Fault
  <2>8. QED
    BY <2>1, <2>2, <2>3, <2>4, <2>5, <2>6, <2>7 DEF TypeOK
<1>11. CASE OtherFault(t)
  <2>1. tf' \subseteq {Main}
    BY <1>2, <1>11 DEF OtherFault
  <2>2. verdict' \in [kind : {"none", "direct", "null-rip", "downstream", "unknown"},
                      site : Address, at : Address]
    BY <1>11, VerdictType DEF OtherFault
  <2>3. QED
    BY <1>11, <2>1, <2>2 DEF OtherFault, TypeOK
<1>12. QED
  BY <1>4, <1>5, <1>6, <1>7, <1>8, <1>9, <1>10, <1>11 DEF Answer

LEMMA NextType == TypeOK /\ [Next]_vars => TypeOK'
<1> SUFFICES ASSUME TypeOK, [Next]_vars PROVE TypeOK'
  OBVIOUS
<1>1. Main \in Thread /\ Event("create", 0, None) \in EventType
      /\ Event("break", Dll, None) \in EventType
  BY Addresses, ConstAssumption DEF Event, EventType, Kinds
<1>2. CASE Created
  <2>1. event' \in [Thread -> EventType]
    BY <1>1, <1>2, EventSet DEF Created, Raise
  <2>2. QED
    BY <1>2, <2>1 DEF Created, TypeOK, EventType, Kinds, daemon
<1>3. CASE LoaderBreak
  <2>1. event' \in [Thread -> EventType]
    BY <1>1, <1>3, EventSet DEF LoaderBreak, Raise
  <2>2. QED
    BY <1>3, <2>1 DEF LoaderBreak, TypeOK, EventType, Kinds, daemon
<1>4. CASE UNCHANGED vars
  BY <1>4 DEF vars, process, daemon, TypeOK
<1>5. QED
  BY <1>2, <1>3, <1>4, RunType, AnswerType DEF Next

(* Every state of every behaviour is of the declared types.                *)
THEOREM Typing == Spec => []TypeOK
  BY InitType, NextType, PTL DEF Spec

(***************************************************************************)
(* The probes, for any number of threads.                                  *)
(***************************************************************************)

(* Before the image runs, the create event is what plants the probes, and  *)
(* nothing has been hit; later no create event comes any more.             *)
BootOK ==
  /\ boot \in {"new", "created"} => probe_hits = <<>>
  /\ boot = "new" => /\ planted = {} /\ watch_orig = {}
                     /\ \A t \in Thread : event[t].kind = "none"
  /\ boot = "created" => /\ \A t \in Thread : event[t].kind \in {"none", "create"}
                         /\ \A t \in Thread : event[t].kind = "create" => t = Main
                         /\ \/ event[Main].kind = "create" /\ planted = {} /\ watch_orig = {}
                            \/ planted = Watch \ OwnInt3 /\ watch_orig = Watch
                                 /\ event[Main].kind = "none"
  /\ boot \in {"up", "down"} => /\ planted = (Watch \ OwnInt3) \ Hits /\ watch_orig = Watch
                                /\ \A t \in Thread : event[t].kind # "create"

LEMMA AppendHit ==
  ASSUME TypeOK, NEW a \in Watch, probe_hits' = Append(probe_hits, a)
  PROVE  Hits' = Hits \union {a}
<1>1. probe_hits \in Seq(Watch)
  BY DEF TypeOK
<1>2. /\ DOMAIN probe_hits' = DOMAIN probe_hits \union {Len(probe_hits) + 1}
      /\ \A i \in DOMAIN probe_hits : probe_hits'[i] = probe_hits[i]
      /\ probe_hits'[Len(probe_hits) + 1] = a
  BY <1>1
<1>3. QED
  BY <1>2 DEF Hits

(* What a thread does, before the daemon answers.                          *)
LEMMA RunKeeps ==
  ASSUME TypeOK, NEW t \in Thread, Run(t)
  PROVE  /\ boot = "up" /\ event[t] = NoEvent
         /\ UNCHANGED <<boot, planted, daemon>>
         /\ \A u \in Thread \ {t} : event'[u] = event[u]
         /\ event'[t].kind \in {"none", "break", "step", "fault", "exit"}
<1>1. t \in Thread /\ Free(t) /\ UNCHANGED <<boot, planted, daemon>>
  BY DEF Run, Int3, Faulting, Ret, Start, Exit, Jump, Call, Runs, Goto, quiet
<1>2. \/ UNCHANGED event
      \/ \E k \in {"break", "step", "fault", "exit"} : \E a, c : Raise(t, Event(k, a, c))
  <2>1. ASSUME NEW a, NEW s, Goto(t, a, s)
        PROVE  UNCHANGED event \/ Raise(t, Event("step", a, None))
    BY <2>1 DEF Goto
  <2>2. QED
    BY <2>1 DEF Run, Int3, Faulting, Ret, Start, Exit, Jump, Call
<1>3. CASE UNCHANGED event
  BY <1>1, <1>3 DEF Free, NoEvent
<1>4. ASSUME NEW k \in {"break", "step", "fault", "exit"}, NEW a, NEW c,
             Raise(t, Event(k, a, c))
      PROVE  /\ \A u \in Thread \ {t} : event'[u] = event[u]
             /\ event'[t].kind \in {"none", "break", "step", "fault", "exit"}
  <2>1. t \in DOMAIN event
    BY DEF TypeOK
  <2>2. QED
    BY <1>4, <2>1 DEF Raise, Event
<1>5. QED
  BY <1>1, <1>2, <1>3, <1>4 DEF Free

(* Every answer is to an event that is there, and takes it away or ends    *)
(* the process.                                                            *)
LEMMA AnswerKeeps ==
  ASSUME TypeOK, NEW t \in Thread, Answer(t)
  PROVE  /\ boot # "down" /\ event[t].kind # "none"
         /\ \/ boot' = boot /\ event' = [event EXCEPT ![t] = NoEvent]
            \/ boot' = "down" /\ event' = event /\ event[t].kind \in {"exit", "fault"}
         /\ \/ CreateProcess(t)
            \/ ProbeBreak(t) /\ event[t].kind = "break"
            \/ UNCHANGED <<planted, watch_orig, probe_hits>> /\ event[t].kind # "create"
<1>1. CASE CreateProcess(t)
  BY <1>1 DEF CreateProcess, Takes, Continue, still
<1>2. CASE ExitProcess(t)
  BY <1>2 DEF ExitProcess, Takes, daemon
<1>3. CASE InitialBreak(t)
  BY <1>3 DEF InitialBreak, Takes, Continue, still
<1>4. CASE ProbeBreak(t)
  BY <1>4 DEF ProbeBreak, Takes, Continue
<1>5. CASE OtherBreak(t)
  BY <1>5 DEF OtherBreak, Takes, Continue, still
<1>6. CASE Step(t)
  BY <1>6 DEF Step, Takes, Continue, still
<1>7. CASE Fault(t)
  BY <1>7 DEF Fault, Takes, Continue
<1>8. CASE OtherFault(t)
  BY <1>8 DEF OtherFault, Takes
<1>9. QED
  BY <1>1, <1>2, <1>3, <1>4, <1>5, <1>6, <1>7, <1>8 DEF Answer

LEMMA BootAnswer ==
  ASSUME TypeOK, BootOK, NEW t \in Thread, Answer(t)
  PROVE  BootOK'
<1> USE DEF BootOK
<1>1. Main \in Thread /\ NoEvent.kind = "none"
  BY ConstAssumption DEF NoEvent
<1>2. event \in [Thread -> EventType]
  BY DEF TypeOK, EventType, Kinds
<1>3. boot \in {"created", "up"}
  BY AnswerKeeps DEF TypeOK
<1>4. CASE CreateProcess(t)
  <2>1. event[t].kind = "create" /\ boot = "created" /\ t = Main
    BY <1>3, <1>4 DEF CreateProcess, Takes
  <2>2. /\ planted' = Watch \ OwnInt3 /\ watch_orig' = Watch /\ UNCHANGED <<boot, probe_hits>>
        /\ event' = [event EXCEPT ![t] = NoEvent]
    BY <1>4 DEF CreateProcess, Continue, still
  <2>3. QED
    BY <1>1, <1>2, <2>1, <2>2
<1>5. CASE ProbeBreak(t) /\ event[t].kind = "break"
  <2>1. boot = "up" /\ event[t].at \in Watch
    BY <1>3, <1>5 DEF ProbeBreak, IsProbe
  <2>2. /\ planted' = planted \ {event[t].at} /\ probe_hits' = Append(probe_hits, event[t].at)
        /\ UNCHANGED <<boot, watch_orig>> /\ event' = [event EXCEPT ![t] = NoEvent]
    BY <1>5 DEF ProbeBreak, Continue
  <2>3. Hits' = Hits \union {event[t].at}
    BY <2>1, <2>2, AppendHit
  <2>4. \A u \in Thread : event'[u].kind # "create"
    BY <1>1, <1>2, <2>1, <2>2
  <2>5. QED
    BY <2>1, <2>2, <2>3, <2>4
<1>6. CASE UNCHANGED <<planted, watch_orig, probe_hits>> /\ event[t].kind # "create"
  <2>1. boot = "up"
    BY <1>3, <1>6, AnswerKeeps
  <2>2. boot' \in {"up", "down"} /\ \A u \in Thread : event'[u].kind # "create"
    BY <1>1, <1>2, <2>1, AnswerKeeps
  <2>3. UNCHANGED Hits
    BY <1>6 DEF Hits
  <2>4. QED
    BY <1>6, <2>1, <2>2, <2>3
<1>7. QED
  BY <1>4, <1>5, <1>6, AnswerKeeps

LEMMA BootStep == TypeOK /\ BootOK /\ [Next]_vars => BootOK'
<1> SUFFICES ASSUME TypeOK, BootOK, [Next]_vars PROVE BootOK'
  OBVIOUS
<1>1. event \in [Thread -> EventType] /\ Main \in Thread
  BY ConstAssumption DEF TypeOK, EventType, Kinds
<1>2. CASE Created
  <2>1. /\ boot = "new" /\ boot' = "created" /\ UNCHANGED <<planted, watch_orig, probe_hits>>
        /\ event' = [event EXCEPT ![Main] = Event("create", 0, None)]
    BY <1>2 DEF Created, Raise, daemon
  <2>2. /\ event'[Main].kind = "create"
        /\ \A u \in Thread : u # Main => event'[u].kind = "none"
    BY <1>1, <2>1 DEF Event, BootOK
  <2>3. QED
    BY <2>1, <2>2 DEF BootOK
<1>3. CASE LoaderBreak
  <2>1. /\ boot = "created" /\ boot' = "up" /\ UNCHANGED <<planted, watch_orig, probe_hits>>
        /\ event' = [event EXCEPT ![Main] = Event("break", Dll, None)]
        /\ event[Main].kind = "none"
    BY <1>3 DEF LoaderBreak, Raise, daemon, NoEvent
  <2>2. \A u \in Thread : event'[u].kind # "create"
    BY <1>1, <2>1 DEF Event, BootOK
  <2>3. probe_hits = <<>> /\ planted = Watch \ OwnInt3 /\ watch_orig = Watch
    BY <2>1 DEF BootOK
  <2>4. Hits' = {}
    BY <2>1, <2>3 DEF Hits
  <2>5. QED
    BY <2>1, <2>2, <2>3, <2>4 DEF BootOK
<1>4. ASSUME NEW t \in Thread, Run(t) PROVE BootOK'
  <2>1. /\ boot = "up" /\ UNCHANGED <<boot, planted, watch_orig, probe_hits>>
    BY <1>4, RunKeeps DEF daemon
  <2>2. \A u \in Thread : event'[u].kind # "create"
    BY <1>4, <2>1, RunKeeps DEF BootOK
  <2>3. UNCHANGED Hits
    BY <2>1 DEF Hits
  <2>4. QED
    BY <2>1, <2>2, <2>3 DEF BootOK
<1>5. CASE UNCHANGED vars
  BY <1>5 DEF vars, process, daemon, BootOK, Hits
<1>6. QED
  BY <1>2, <1>3, <1>4, <1>5, BootAnswer DEF Next

LEMMA BootInit == Init => BootOK
  BY DEF Init, BootOK, NoEvent

LEMMA BootInvariance == Spec => [](TypeOK /\ BootOK)
  BY InitType, NextType, BootInit, BootStep, PTL DEF Spec

(* While the process runs, the INT3s in the image are those of the probes  *)
(* that have not been reported, whichever threads meet them in whatever    *)
(* order, and the daemon has the byte of each.                             *)
THEOREM Accounted == Spec => []ProbesAccounted
<1>1. TypeOK /\ BootOK => ProbesAccounted
  BY DEF TypeOK, BootOK, ProbesAccounted
<1>2. QED
  BY <1>1, BootInvariance, PTL

(* An instruction with a probe is executed only after its report.          *)
LEMMA RunsReported ==
  ASSUME TypeOK, BootOK, NeverHitIsTrue, NEW t \in Thread, Run(t)
  PROVE  NeverHitIsTrue'
<1>1. boot = "up" /\ planted = (Watch \ OwnInt3) \ Hits /\ UNCHANGED Hits
  BY RunKeeps DEF BootOK, daemon, Hits
<1>2. \/ UNCHANGED ran
      \/ /\ rip[t] \notin planted \union OwnInt3
         /\ ran' = [ran EXCEPT ![t] = @ \union ({rip[t]} \intersect Image)]
  BY DEF Run, Int3, Faulting, Exit, Ret, Start, Jump, Call, Runs, Goto
<1>3. CASE UNCHANGED ran
  BY <1>1, <1>3 DEF NeverHitIsTrue
<1>4. CASE /\ rip[t] \notin planted \union OwnInt3
           /\ ran' = [ran EXCEPT ![t] = @ \union ({rip[t]} \intersect Image)]
  <2>1. {rip[t]} \intersect Watch \subseteq Hits
    BY <1>1, <1>4
  <2>2. \A u \in Thread : ran'[u] = ran[u] \/ ran'[u] = ran[u] \union ({rip[t]} \intersect Image)
    BY <1>4
  <2>3. QED
    BY <1>1, <2>1, <2>2 DEF NeverHitIsTrue
<1>5. QED
  BY <1>2, <1>3, <1>4

LEMMA AnswerReported ==
  ASSUME TypeOK, NeverHitIsTrue, NEW t \in Thread, Answer(t)
  PROVE  NeverHitIsTrue'
<1>1. UNCHANGED ran
  BY DEF Answer, CreateProcess, ExitProcess, InitialBreak, ProbeBreak, OtherBreak, Step, Fault,
         OtherFault, still
<1>2. Hits \subseteq Hits'
  <2>1. CASE ProbeBreak(t)
    <3>1. event[t].at \in Watch /\ probe_hits' = Append(probe_hits, event[t].at)
      BY <2>1 DEF ProbeBreak, IsProbe, TypeOK
    <3>2. QED
      BY <3>1, AppendHit
  <2>2. CASE UNCHANGED probe_hits
    BY <2>2 DEF Hits
  <2>3. CreateProcess(t) => UNCHANGED probe_hits
    BY DEF CreateProcess
  <2>4. QED
    BY <2>1, <2>2, <2>3, AnswerKeeps
<1>3. QED
  BY <1>1, <1>2 DEF NeverHitIsTrue

(* "NEVER HIT" in the exit report is true of every thread: none executed   *)
(* an instruction with a probe that was not reported.                      *)
THEOREM NeverHit == Spec => []NeverHitIsTrue
<1>1. Init => NeverHitIsTrue
  BY DEF Init, NeverHitIsTrue
<1>2. TypeOK /\ BootOK /\ NeverHitIsTrue /\ [Next]_vars => NeverHitIsTrue'
  <2> SUFFICES ASSUME TypeOK, BootOK, NeverHitIsTrue, [Next]_vars PROVE NeverHitIsTrue'
    OBVIOUS
  <2>1. Created \/ LoaderBreak \/ UNCHANGED vars => UNCHANGED <<ran, probe_hits>>
    BY DEF Created, LoaderBreak, vars, daemon
  <2>2. UNCHANGED <<ran, probe_hits>> => NeverHitIsTrue'
    BY DEF NeverHitIsTrue, Hits
  <2>3. QED
    BY <2>1, <2>2, RunsReported, AnswerReported DEF Next
<1>3. QED
  BY <1>1, <1>2, BootInvariance, PTL DEF Spec

(***************************************************************************)
(* The main thread, beside any number of others.                           *)
(***************************************************************************)

(* It is inside an instruction only while a probe waits for its answer,    *)
(* and the breakpoint of ntdll has been answered by then.                  *)
WholeOK ==
  /\ boot \in {"new", "created"} => Main \notin skid
  /\ boot = "up" /\ event[Main].kind # "break" => initial_bp
  /\ boot # "down" /\ Main \in skid =>
       event[Main].kind = "break" /\ event[Main].at \in Watch /\ initial_bp

LEMMA WholeRun ==
  ASSUME TypeOK, BootOK, WholeOK, NEW t \in Thread, Run(t)
  PROVE  WholeOK'
<1> USE DEF WholeOK
<1>1. /\ boot = "up" /\ event[t] = NoEvent /\ UNCHANGED <<boot, initial_bp>>
      /\ \A u \in Thread \ {t} : event'[u] = event[u]
  BY RunKeeps DEF daemon
<1>2. Main \in Thread /\ event \in [Thread -> EventType]
  BY ConstAssumption DEF TypeOK, EventType, Kinds
<1>3. skid' = skid \/ (Int3(t) /\ rip[t] \in planted /\ skid' = skid \union {t})
  BY DEF Run, Int3, Faulting, Exit, Ret, Start, Jump, Call, Goto
<1>4. CASE t # Main
  BY <1>1, <1>2, <1>3, <1>4
<1>5. CASE t = Main
  <2>1. initial_bp /\ Main \notin skid
    BY <1>1, <1>5 DEF NoEvent
  <2>2. CASE skid' = skid
    BY <1>1, <2>1, <2>2
  <2>3. CASE Int3(Main) /\ rip[Main] \in planted /\ skid' = skid \union {Main}
    <3>1. event' = [event EXCEPT ![Main] = Event("break", rip[Main], None)]
      BY <2>3 DEF Int3, Raise
    <3>2. event'[Main].kind = "break" /\ event'[Main].at = rip[Main]
      BY <1>2, <3>1 DEF Event
    <3>3. rip[Main] \in Watch
      BY <1>1, <2>3 DEF BootOK
    <3>4. QED
      BY <1>1, <2>1, <3>2, <3>3
  <2>4. QED
    BY <1>3, <1>5, <2>2, <2>3
<1>6. QED
  BY <1>4, <1>5

LEMMA WholeAnswer ==
  ASSUME LoaderSite \notin Watch, TypeOK, BootOK, WholeOK, NEW t \in Thread, Answer(t)
  PROVE  WholeOK'
<1> USE DEF WholeOK
<1>1. event \in [Thread -> EventType] /\ Main \in Thread /\ NoEvent.kind = "none"
  BY ConstAssumption DEF TypeOK, EventType, Kinds, NoEvent
<1>2. /\ boot # "down" /\ boot' \in {boot, "down"}
      /\ boot' # "down" => event' = [event EXCEPT ![t] = NoEvent]
  BY AnswerKeeps
<1>3. (Main \in skid' => Main \in skid) /\ (initial_bp => initial_bp')
  BY DEF Answer, CreateProcess, ExitProcess, InitialBreak, ProbeBreak, OtherBreak,
         Step, Fault, OtherFault, daemon
<1>4. CASE t # Main
  BY <1>1, <1>2, <1>3, <1>4
<1>5. CASE t = Main /\ boot' # "down"
  <2>1. event'[Main].kind = "none"
    BY <1>1, <1>2, <1>5
  <2>2. boot = "up" => initial_bp'
    <3>1. CASE event[Main].kind = "break"
      <4>1. InitialBreak(Main) \/ ProbeBreak(Main) \/ OtherBreak(Main)
        BY <1>5, <3>1 DEF Answer, CreateProcess, ExitProcess, Step, Fault, OtherFault, Takes
      <4>2. QED
        BY <1>3, <4>1 DEF InitialBreak, ProbeBreak, OtherBreak
    <3>2. CASE event[Main].kind # "break"
      BY <1>3, <3>2
    <3>3. QED
      BY <3>1, <3>2
  <2>3. Main \notin skid'
    <3> SUFFICES ASSUME Main \in skid PROVE Main \notin skid'
      BY <1>3
    <3>1. /\ event[Main].kind = "break" /\ event[Main].at \in Watch /\ initial_bp
          /\ boot = "up"
      BY <1>2 DEF TypeOK
    <3>2. IsProbe(event[Main].at)
      BY <3>1 DEF IsProbe, BootOK
    <3>3. ProbeBreak(Main)
      BY <1>5, <3>1, <3>2 DEF Answer, CreateProcess, ExitProcess, InitialBreak, OtherBreak,
                              Step, Fault, OtherFault, Takes
    <3>4. QED
      BY <3>3 DEF ProbeBreak
  <2>4. QED
    BY <1>2, <2>1, <2>2, <2>3
<1>6. QED
  BY <1>2, <1>3, <1>4, <1>5

(* For any number of threads, and whatever probes they meet: the main      *)
(* thread goes on at whole instructions only, although the probes of all   *)
(* threads are answered on its context (dbg_root.py 738-760 and 496-532).  *)
THEOREM MainIsWhole ==
  ASSUME LoaderSite \notin Watch
  PROVE  Spec => []MainWhole
<1>1. Init => WholeOK
  BY DEF Init, WholeOK
<1>2. TypeOK /\ BootOK /\ WholeOK /\ [Next]_vars => WholeOK'
  <2> SUFFICES ASSUME TypeOK, BootOK, WholeOK, [Next]_vars PROVE WholeOK'
    OBVIOUS
  <2>1. CASE Created
    BY <2>1 DEF Created, WholeOK
  <2>2. CASE LoaderBreak
    <3>1. /\ boot = "created" /\ boot' = "up" /\ skid' = skid
          /\ event' = [event EXCEPT ![Main] = Event("break", Dll, None)]
      BY <2>2 DEF LoaderBreak, Raise
    <3>2. event'[Main].kind = "break"
      BY <3>1, ConstAssumption DEF TypeOK, Event
    <3>3. QED
      BY <3>1, <3>2 DEF WholeOK
  <2>3. CASE UNCHANGED vars
    BY <2>3 DEF vars, process, daemon, WholeOK
  <2>4. QED
    BY <2>1, <2>2, <2>3, WholeRun, WholeAnswer DEF Next
<1>3. WholeOK => MainWhole
  BY DEF WholeOK, MainWhole, Free, NoEvent
<1>4. QED
  BY <1>1, <1>2, <1>3, BootInvariance, PTL DEF Spec

(***************************************************************************)
(* A process of one thread, with no probe on an INT3 of its own.           *)
(***************************************************************************)
Alone == Thread = {Main} /\ Watch \intersect OwnInt3 = {} /\ LoaderSite \notin Watch

(* The thread is inside an instruction only while a probe waits for its    *)
(* answer, and the breakpoint of ntdll has been answered by then.          *)
AloneOK ==
  /\ boot \in {"new", "created"} => skid = {}
  /\ boot = "up" /\ event[Main].kind # "break" => initial_bp
  /\ boot # "down" /\ Main \in skid => event[Main].kind = "break" /\ event[Main].at \in Watch
  /\ boot = "up" /\ event[Main].kind = "break" =>
       event[Main].at \notin Watch \/ (event[Main].at \in planted /\ initial_bp)
  /\ HitOnce

LEMMA AloneRun ==
  ASSUME Alone, TypeOK, BootOK, AloneOK, Run(Main)
  PROVE  AloneOK'
<1> USE DEF AloneOK
<1>1. /\ boot = "up" /\ event[Main] = NoEvent /\ initial_bp /\ Main \notin skid
      /\ UNCHANGED <<boot, planted, initial_bp, probe_hits>>
  <2>1. Main \in Thread
    BY ConstAssumption
  <2>2. QED
    BY <2>1, RunKeeps DEF daemon, NoEvent
<1>2. event \in [Thread -> EventType] /\ Main \in Thread
  BY ConstAssumption DEF TypeOK, EventType, Kinds
<1>3. CASE Int3(Main)
  <2>1. event' = [event EXCEPT ![Main] = Event("break", rip[Main], None)]
    BY <1>3 DEF Int3, Raise
  <2>2. event'[Main].kind = "break" /\ event'[Main].at = rip[Main]
    BY <1>2, <2>1 DEF Event
  <2>3. rip[Main] \in planted \/ (rip[Main] \notin Watch /\ UNCHANGED skid)
    BY <1>3 DEF Int3, Alone
  <2>4. planted \subseteq Watch
    BY <1>1 DEF BootOK
  <2>5. QED
    BY <1>1, <2>2, <2>3, <2>4 DEF HitOnce
<1>4. CASE ~Int3(Main)
  <2>1. UNCHANGED skid
    BY <1>4 DEF Run, Faulting, Exit, Ret, Start, Jump, Call, Goto
  <2>2. event'[Main].kind # "break"
    <3>1. ASSUME NEW a, NEW s, Goto(Main, a, s) PROVE event'[Main].kind # "break"
      BY <1>1, <1>2, <3>1 DEF Goto, Raise, Event, NoEvent
    <3>2. Faulting(Main) \/ Exit(Main) => event'[Main].kind # "break"
      BY <1>2 DEF Faulting, Exit, Raise, Event
    <3>3. QED
      BY <1>4, <3>1, <3>2 DEF Run, Ret, Start, Jump, Call
  <2>3. QED
    BY <1>1, <2>1, <2>2 DEF HitOnce
<1>5. QED
  BY <1>3, <1>4

LEMMA AloneAnswer ==
  ASSUME Alone, TypeOK, BootOK, AloneOK, Answer(Main)
  PROVE  AloneOK'
<1> USE DEF AloneOK
<1>1. event \in [Thread -> EventType] /\ Main \in Thread /\ NoEvent.kind = "none"
  BY ConstAssumption DEF TypeOK, EventType, Kinds, NoEvent
<1>2. /\ boot \in {"created", "up"}
      /\ event'[Main].kind = "none" \/ boot' = "down"
      /\ boot' \in {boot, "down"}
  BY <1>1, AnswerKeeps DEF TypeOK, BootOK
<1>3. CASE ProbeBreak(Main)
  <2>1. /\ event[Main].kind = "break" /\ event[Main].at \in Watch /\ initial_bp
        /\ probe_hits' = Append(probe_hits, event[Main].at) /\ skid' = skid \ {Main}
        /\ UNCHANGED <<boot, initial_bp>> /\ probe_hits \in Seq(Watch)
    BY <1>3 DEF ProbeBreak, Takes, IsProbe, TypeOK
  <2>2. boot = "up" /\ event[Main].at \notin Hits
    BY <1>2, <2>1 DEF BootOK
  <2>3. HitOnce'
    <3>1. /\ DOMAIN probe_hits' = 1 .. Len(probe_hits) + 1
          /\ \A i \in 1 .. Len(probe_hits) : probe_hits'[i] = probe_hits[i]
          /\ probe_hits'[Len(probe_hits) + 1] = event[Main].at
          /\ Len(probe_hits) \in Nat /\ DOMAIN probe_hits = 1 .. Len(probe_hits)
      BY <2>1
    <3>2. \A i \in 1 .. Len(probe_hits) : probe_hits[i] # event[Main].at
      BY <2>2, <3>1 DEF Hits
    <3>3. QED
      BY <3>1, <3>2 DEF HitOnce
  <2>4. QED
    BY <1>2, <2>1, <2>2, <2>3
<1>4. CASE ~ProbeBreak(Main) /\ Main \notin skid
  <2>1. UNCHANGED <<skid, probe_hits>>
    BY <1>4 DEF Answer, CreateProcess, ExitProcess, InitialBreak, OtherBreak, Step, Fault,
                OtherFault, daemon
  <2>2. UNCHANGED initial_bp \/ initial_bp'
    BY <1>4 DEF Answer, CreateProcess, ExitProcess, InitialBreak, OtherBreak, Step, Fault,
                OtherFault, daemon
  <2>3. boot' = "up" => initial_bp'
    <3>1. CASE event[Main].kind = "break"
      BY <1>4, <3>1 DEF Answer, CreateProcess, ExitProcess, InitialBreak, OtherBreak, Step, Fault,
                        OtherFault, Takes
    <3>2. CASE event[Main].kind # "break"
      BY <1>2, <2>2, <3>2
    <3>3. QED
      BY <3>1, <3>2
  <2>4. QED
    BY <1>2, <1>4, <2>1, <2>3 DEF HitOnce
<1>5. CASE ~ProbeBreak(Main) /\ Main \in skid
  <2>1. /\ boot = "up" /\ event[Main].kind = "break" /\ event[Main].at \in Watch /\ initial_bp
        /\ watch_orig = Watch
    BY <1>2, <1>5 DEF BootOK
  <2>2. IsProbe(event[Main].at)
    BY <2>1 DEF IsProbe, Alone
  <2>3. FALSE
    BY <1>5, <2>1, <2>2 DEF Answer, CreateProcess, ExitProcess, InitialBreak, OtherBreak, Step,
                            Fault, OtherFault, Takes
  <2>4. QED
    BY <2>3
<1>6. QED
  BY <1>3, <1>4, <1>5

LEMMA AloneInvariance ==
  ASSUME Alone
  PROVE  Spec => [](TypeOK /\ BootOK /\ AloneOK)
<1>1. Init => AloneOK
  BY ConstAssumption DEF Init, AloneOK, HitOnce
<1>2. TypeOK /\ BootOK /\ AloneOK /\ [Next]_vars => AloneOK'
  <2> SUFFICES ASSUME TypeOK, BootOK, AloneOK, [Next]_vars PROVE AloneOK'
    OBVIOUS
  <2>1. CASE Created
    <3>1. /\ boot = "new" /\ boot' = "created" /\ skid = {} /\ UNCHANGED <<skid, probe_hits>>
      BY <2>1 DEF Created, daemon, AloneOK
    <3>2. QED
      BY <3>1 DEF AloneOK, HitOnce
  <2>2. CASE LoaderBreak
    <3>1. /\ boot = "created" /\ skid = {} /\ UNCHANGED <<skid, probe_hits>>
          /\ event' = [event EXCEPT ![Main] = Event("break", Dll, None)]
      BY <2>2 DEF LoaderBreak, Raise, daemon, AloneOK
    <3>2. event'[Main].kind = "break" /\ event'[Main].at = Dll
      BY <3>1, ConstAssumption DEF TypeOK, Event
    <3>3. Dll \notin Watch
      BY Addresses, ConstAssumption
    <3>4. QED
      BY <3>1, <3>2, <3>3 DEF AloneOK, HitOnce
  <2>3. CASE UNCHANGED vars
    BY <2>3 DEF vars, process, daemon, AloneOK, HitOnce
  <2>4. QED
    BY <2>1, <2>2, <2>3, AloneRun, AloneAnswer DEF Next, Alone
<1>3. QED
  BY <1>1, <1>2, BootInvariance, PTL DEF Spec

(* With one thread a probe is reported once.                               *)
THEOREM ReportedOnce ==
  ASSUME Alone
  PROVE  Spec => []HitOnce
<1>1. TypeOK /\ BootOK /\ AloneOK => HitOnce
  BY DEF AloneOK
<1>2. QED
  BY <1>1, AloneInvariance, PTL
=============================================================================
