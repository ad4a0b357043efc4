---------------------------- MODULE TracerProofs ----------------------------
(***************************************************************************)
(* Proofs about StepTracer for any image and any DLLs: first for any       *)
(* number of threads, callbacks and unwinding included, then for one       *)
(* thread and DLLs that do not call back.                                  *)
(***************************************************************************)
EXTENDS StepTracer, SequenceTheorems, FiniteSetTheorems, TLAPS

(* The tracer will hear of t at its next instruction, or just has.         *)
Watched(t) == tf[t] = TRUE \/ event[t][1] = "step"

(* Only the main thread is ever single-stepped.                            *)
OnlyMain == \A t \in Threads : Watched(t) => t = Main

(* Before the loader breakpoint, and until the entry breakpoint is gone,   *)
(* nothing is stepped and nothing is planted beside it.                    *)
Early ==
  entry_bp # Absent \/ first_bp_seen = FALSE =>
    /\ bp_addr = Absent
    /\ \A t \in Threads : ~Watched(t)

(* The create event is the first: no thread has moved when it is pending.  *)
Start ==
  \A t \in Threads :
    event[t][1] = "create" =>
      /\ t = Main
      /\ first_bp_seen = FALSE
      /\ entry_bp = Absent
      /\ loaded = {}
      /\ \A u \in Threads : u # t => event[u] = NoEvent /\ rip[u] = Ntdll[1]

IInv ==
  /\ TypeOK
  /\ BytesAccounted
  /\ \A t \in Threads : Watched(t) => bp_addr = Absent
  /\ OnlyMain
  /\ Early
  /\ Start

-----------------------------------------------------------------------------
LEMMA Places ==
  /\ Absent \notin MainCode
  /\ Skid \notin MainCode
  /\ Ntdll[1] \in DllCode
  /\ DllCode \intersect MainCode = {}
  /\ DllCode \subseteq Nat
<1>1. Absent \notin MainCode /\ Skid \notin MainCode
  BY ConstAssumption DEF Absent, MainCode, Skid
<1>2. ASSUME NEW d \in Dlls
      PROVE d[1] \notin MainCode /\ d[1] \in Nat
  BY ConstAssumption DEF MainCode, Skid
<1>3. QED
  BY <1>1, <1>2, ConstAssumption DEF DllCode

LEMMA InitIInv == Init => IInv
<1> SUFFICES ASSUME Init PROVE IInv
  OBVIOUS
<1> USE DEF Init
<1>1. TypeOK
  <2>1. Ntdll[1] \in Anywhere
    BY Places DEF Anywhere, Code
  <2>2. <<"create", Absent>> \in Kinds \X (Anywhere \union {Absent})
    BY DEF Kinds
  <2>3. NoEvent \in Kinds \X (Anywhere \union {Absent})
    BY DEF Kinds, NoEvent
  <2>4. event \in [Threads -> Kinds \X (Anywhere \union {Absent})]
    BY <2>2, <2>3
  <2>5. stack \in [Threads -> Seq(Code)] /\ ring \in Seq(MainCode)
        /\ trail \in Seq(Visits)
    OBVIOUS
  <2>6. QED
    BY <2>1, <2>4, <2>5 DEF TypeOK, Bytes, Verdicts
<1>2. \A t \in Threads : ~Watched(t)
  BY DEF Watched, NoEvent
<1>3. BytesAccounted
  BY Places DEF BytesAccounted
<1>4. Early
  BY <1>2 DEF Early
<1>5. Start
  BY DEF Start, NoEvent
<1>6. QED
  BY <1>1, <1>2, <1>3, <1>4, <1>5 DEF IInv, OnlyMain

-----------------------------------------------------------------------------
(* Type correctness.                                                       *)

LEMMA NoteType ==
  ASSUME NEW S, NEW places \in Seq(S), NEW a \in S
  PROVE Note(places, a) \in Seq(S)
<1>1. Append(places, a) \in Seq(S) /\ Append(places, a) # <<>>
  BY AppendProperties
<1>2. Tail(Append(places, a)) \in Seq(S)
  BY <1>1, HeadTailProperties
<1>3. QED
  BY <1>1, <1>2 DEF Note

LEMMA ArriveType ==
  ASSUME TypeOK, NEW t \in Threads, NEW a \in Anywhere, NEW frames \in Seq(Code),
         Arrive(t, a, frames), boot' \in {"loading", "ready", "started"}
  PROVE TypeOK'
<1> USE DEF Arrive, TypeOK, tracer, plant, mode, log
<1>1. rip' \in [Threads -> Anywhere] /\ stack' \in [Threads -> Seq(Code)]
  OBVIOUS
<1>2. tf' \in [Threads -> BOOLEAN]
  OBVIOUS
<1>3. event' \in [Threads -> Kinds \X (Anywhere \union {Absent})]
  <2>1. <<"step", a>> \in Kinds \X (Anywhere \union {Absent})
    BY DEF Kinds
  <2>2. QED
    BY <2>1 DEF Raise
<1>4. trail' \in Seq(Visits)
  <2> DEFINE v == [at |-> a, inner |-> InImage(t)]
  <2>1. trail \in Seq(Visits)
    OBVIOUS
  <2>2. InImage(t) \in BOOLEAN
    BY DEF InImage
  <2>3. a \in MainCode => v \in Visits
    BY <2>2 DEF Visits
  <2>4. trail' = trail \/ (a \in MainCode /\ trail' = Note(trail, v))
    OBVIOUS
  <2>5. QED
    BY <2>1, <2>3, <2>4, NoteType
<1>5. QED
  BY <1>1, <1>2, <1>3, <1>4

LEMMA TypeStep == TypeOK /\ [Next]_vars => TypeOK'
<1> SUFFICES ASSUME TypeOK, [Next]_vars PROVE TypeOK'
  OBVIOUS
<1>0. /\ MainCode \subseteq Code /\ DllCode \subseteq Code
      /\ Code \subseteq Anywhere /\ Skid \in Anywhere
      /\ Callable \subseteq Anywhere
  <2>1. {d[1] : d \in loaded} \subseteq DllCode
    BY DEF TypeOK, DllCode
  <2>2. QED
    BY <2>1 DEF Code, Anywhere, Callable
<1>a. \A t \in Threads : stack[t] \in Seq(Code) /\ rip[t] \in Anywhere
  BY DEF TypeOK
<1>b. \A t \in Threads : InDll(t) => rip[t] \in DllCode
  BY DEF InDll, TypeOK, DllCode
<1>1. ASSUME NEW t \in Threads, Jump(t) PROVE TypeOK'
  BY <1>0, <1>1, <1>a, ArriveType DEF Jump, TypeOK
<1>2. ASSUME NEW t \in Threads, Call(t) PROVE TypeOK'
  <2>1. rip[t] + 1 \in Code
    BY <1>2, ConstAssumption DEF Call, Ahead, InImage, MainCode, Code
  <2>2. <<rip[t] + 1>> \o stack[t] \in Seq(Code)
    BY <1>a, <2>1
  <2>3. PICK a \in Callable : Arrive(t, a, <<rip[t] + 1>> \o stack[t])
    BY <1>2 DEF Call
  <2>4. boot' \in {"loading", "ready", "started"}
    BY <1>2 DEF Call, TypeOK
  <2>5. QED
    BY <1>0, <2>2, <2>3, <2>4, ArriveType
<1>3. ASSUME NEW t \in Threads, Ret(t) PROVE TypeOK'
  <2>1. Head(stack[t]) \in Code /\ Tail(stack[t]) \in Seq(Code)
    BY <1>3, <1>a DEF Ret
  <2>2. boot' \in {"loading", "ready", "started"}
    BY <1>3 DEF Ret, TypeOK
  <2>3. QED
    BY <1>0, <1>3, <2>1, <2>2, ArriveType DEF Ret
<1>4. ASSUME NEW t \in Threads, DllStep(t) PROVE TypeOK'
  BY <1>4, <1>a, ArriveType DEF DllStep, TypeOK
<1>5. ASSUME NEW t \in Threads, Callback(t) PROVE TypeOK'
  <2>1. <<rip[t]>> \o stack[t] \in Seq(Code)
    BY <1>0, <1>5, <1>a, <1>b DEF Callback
  <2>2. PICK a \in MainCode : Arrive(t, a, <<rip[t]>> \o stack[t])
    BY <1>5 DEF Callback
  <2>3. boot' \in {"loading", "ready", "started"}
    BY <1>5 DEF Callback, TypeOK
  <2>4. QED
    BY <1>0, <2>1, <2>2, <2>3, ArriveType
<1>6. ASSUME NEW t \in Threads, Unwind(t) PROVE TypeOK'
  <2>1. PICK n \in 2 .. Len(stack[t]) :
          Arrive(t, stack[t][n], SubSeq(stack[t], n + 1, Len(stack[t])))
    BY <1>6 DEF Unwind
  <2>2. stack[t][n] \in Code
    BY <1>a
  <2>3. SubSeq(stack[t], n + 1, Len(stack[t])) \in Seq(Code)
    BY <1>a, SubSeqProperties
  <2>4. boot' \in {"loading", "ready", "started"}
    BY <1>6 DEF Unwind, TypeOK
  <2>5. QED
    BY <1>0, <2>1, <2>2, <2>3, <2>4, ArriveType
<1>7. ASSUME StartMain PROVE TypeOK'
  <2>1. Arrive(Main, Entry, <<rip[Main]>>)
    BY <1>7 DEF StartMain
  <2>2. Entry \in MainCode /\ Main \in Threads
    BY ConstAssumption
  <2>3. <<rip[Main]>> \in Seq(Code)
    BY <1>0, <1>7, <1>b, <2>2 DEF StartMain
  <2>4. boot' \in {"loading", "ready", "started"}
    BY <1>7 DEF StartMain
  <2>5. QED
    BY <1>0, <2>1, <2>2, <2>3, <2>4, ArriveType
<1>8. ASSUME LoadDll PROVE TypeOK'
  <2>1. PICK d \in Dlls \ loaded :
          loaded' = loaded \union {d} /\ Raise(Main, "load", d[1])
    BY <1>8 DEF LoadDll
  <2>2. d[1] \in Anywhere
    BY <1>0, <2>1 DEF DllCode
  <2>3. QED
    BY <1>8, <2>1, <2>2
       DEF LoadDll, Raise, TypeOK, Kinds, tracer, plant, mode, log
<1>9. ASSUME LoaderBreak PROVE TypeOK'
  BY <1>9, ConstAssumption
     DEF LoaderBreak, Raise, TypeOK, Kinds, tracer, plant, mode, log
<1>10. ASSUME NEW t \in Threads, HitInt3(t) PROVE TypeOK'
  <2>1. rip' \in [Threads -> Anywhere]
    BY <1>0, <1>10 DEF HitInt3, TypeOK
  <2>2. "break" \in Kinds
    BY DEF Kinds
  <2>3. event' \in [Threads -> Kinds \X (Anywhere \union {Absent})]
    BY <1>10, <1>a, <2>2 DEF HitInt3, Raise, TypeOK
  <2>4. QED
    BY <1>10, <2>1, <2>3 DEF HitInt3, TypeOK, tracer, plant, mode, log
<1>11. ASSUME NEW t \in Threads, Benign(t) \/ Fault(t) \/ Exit(t) PROVE TypeOK'
  <2>1. PICK k \in Kinds : Raise(t, k, rip[t])
    BY <1>11 DEF Benign, Fault, Exit, Kinds
  <2>2. event' \in [Threads -> Kinds \X (Anywhere \union {Absent})]
    BY <1>a, <2>1 DEF Raise, TypeOK
  <2>3. QED
    BY <1>11, <2>2 DEF Benign, Fault, Exit, TypeOK, tracer, plant, mode, log
<1> USE DEF TypeOK, cpu, plant, mode, log, outside
<1>12. ASSUME NEW t \in Threads, Continue(t)
       PROVE event' \in [Threads -> Kinds \X (Anywhere \union {Absent})]
  <2>1. NoEvent \in Kinds \X (Anywhere \union {Absent})
    BY DEF Kinds, NoEvent
  <2>2. QED
    BY <1>12, <2>1 DEF Continue
<1>13. ASSUME NEW t \in Threads, CreateProcess(t) PROVE TypeOK'
  BY <1>12, <1>13, ConstAssumption DEF CreateProcess, WriteMem, Bytes
<1>14. ASSUME NEW t \in Threads, LoadDllEvent(t) PROVE TypeOK'
  BY <1>12, <1>14 DEF LoadDllEvent
<1>15. ASSUME NEW t \in Threads,
              ExitProcess(t) \/ WildBranch(t) \/ RealException(t) \/ Timeout
       PROVE TypeOK'
  BY <1>15
     DEF ExitProcess, WildBranch, RealException, Timeout, Stop, Verdicts
<1>16. ASSUME NEW t \in Threads, FirstBp(t) PROVE TypeOK'
  BY <1>12, <1>16 DEF FirstBp, SetTF
<1>17. ASSUME NEW t \in Threads, EntryBp(t) PROVE TypeOK'
  BY <1>0, <1>12, <1>17 DEF EntryBp, SetTF, WriteMem, Rewind, Bytes
<1>18. ASSUME NEW t \in Threads, OneShotBp(t) PROVE TypeOK'
  <2>1. Addr(t) \in MainCode
    BY <1>18 DEF OneShotBp
  <2>2. rip' \in [Threads -> Anywhere]
    BY <1>0, <1>18, <2>1 DEF OneShotBp, Rewind
  <2>3. tf' \in [Threads -> BOOLEAN]
    BY <1>18 DEF OneShotBp, SetTF
  <2>4. mem' \in [MainCode -> Bytes] /\ bp_orig' \in Bytes /\ bp_addr' = Absent
    BY <1>18 DEF OneShotBp, ClearBp, WriteMem, Bytes
  <2>5. QED
    BY <1>12, <1>18, <2>2, <2>3, <2>4 DEF OneShotBp
<1>19. ASSUME NEW t \in Threads, ForeignBp(t) \/ PassCode(t) \/ RunFree(t)
       PROVE TypeOK'
  BY <1>12, <1>19 DEF ForeignBp, PassCode, RunFree, SetTF
<1>20. ASSUME NEW t \in Threads, StepInImage(t) PROVE TypeOK'
  BY <1>12, <1>20, NoteType DEF StepInImage, InMain, SetTF
<1>21. ASSUME NEW t \in Threads, StepOver(t) PROVE TypeOK'
  BY <1>12, <1>21 DEF StepOver, InMain, ArmBp, SetTF, WriteMem, Bytes
<1>22. ASSUME UNCHANGED vars PROVE TypeOK'
  BY <1>22 DEF vars, debuggee, tracer
<1>23. Main \in Threads
  BY ConstAssumption
<1>24. QED
  BY <1>1, <1>2, <1>3, <1>4, <1>5, <1>6, <1>7, <1>8, <1>9, <1>10, <1>11, <1>13,
     <1>14, <1>15, <1>16, <1>17, <1>18, <1>19, <1>20, <1>21, <1>22, <1>23
     DEF Next, Program, Handle

(* The state of the debuggee and of the tracer keeps its type.             *)
THEOREM Typing == Spec => []TypeOK
<1>1. Init => TypeOK
  BY InitIInv DEF IInv
<1>2. QED
  BY <1>1, TypeStep, PTL DEF Spec

-----------------------------------------------------------------------------
(* The invariant.                                                          *)

NoCreate == \A u \in Threads : event[u][1] # "create"

(* Once a thread has moved or raised another event, create is behind.      *)
LEMMA PastCreate ==
  ASSUME IInv, NEW t \in Threads,
         \/ Running(t) /\ (t = Main \/ InImage(t) \/ InDll(t) \/ rip[t] # Ntdll[1])
         \/ event[t][1] \notin {"none", "create"}
  PROVE NoCreate
<1> SUFFICES ASSUME NEW u \in Threads, event[u][1] = "create" PROVE FALSE
  BY DEF NoCreate
<1>1. /\ u = Main /\ loaded = {}
      /\ t # Main => event[t] = NoEvent /\ rip[t] = Ntdll[1]
  BY DEF IInv, Start
<1>2. t # Main
  BY <1>1 DEF Running, NoEvent
<1>3. rip[t] \notin MainCode
  BY <1>1, <1>2, Places
<1>4. QED
  BY <1>1, <1>2, <1>3 DEF Running, InImage, InDll, NoEvent

(* A step that plants nothing and turns no flag on.                        *)
LEMMA Quiet ==
  ASSUME IInv, TypeOK', Start',
         UNCHANGED <<mem, bp_addr, bp_orig, entry_bp, first_bp_seen>>,
         \A u \in Threads : Watched(u)' => Watched(u)
  PROVE IInv'
<1>1. BytesAccounted'
  BY DEF IInv, BytesAccounted
<1>2. \A u \in Threads : Watched(u)' => bp_addr' = Absent
  BY DEF IInv
<1>3. OnlyMain'
  BY DEF IInv, OnlyMain
<1>4. Early'
  BY DEF IInv, Early
<1>5. QED
  BY <1>1, <1>2, <1>3, <1>4 DEF IInv

LEMMA ArriveStep ==
  ASSUME IInv, TypeOK', NEW t \in Threads, Running(t), InImage(t) \/ InDll(t),
         NEW a, NEW frames, Arrive(t, a, frames)
  PROVE IInv'
<1>1. NoCreate
  BY PastCreate
<1>2. TypeOK
  BY DEF IInv
<1>3. \A u \in Threads :
        /\ Watched(u)' => Watched(u)
        /\ event'[u] = event[u] \/ event'[u][1] = "step"
  BY <1>2 DEF Arrive, Raise, Watched, TypeOK
<1>4. Start'
  BY <1>1, <1>3 DEF Start, NoCreate
<1>5. QED
  BY <1>3, <1>4, Quiet DEF Arrive, tracer, plant, mode

LEMMA RaiseStep ==
  ASSUME IInv, TypeOK', NEW t \in Threads, NoCreate,
         NEW k \in {"load", "break", "benign", "fault", "exit"}, NEW a,
         Raise(t, k, a), UNCHANGED <<tf, mem, tracer>>
  PROVE IInv'
<1>1. TypeOK
  BY DEF IInv
<1>2. \A u \in Threads :
        /\ Watched(u)' => Watched(u)
        /\ event'[u] = event[u] \/ event'[u][1] = k
  BY <1>1 DEF Raise, Watched, TypeOK
<1>3. Start'
  BY <1>2 DEF Start, NoCreate
<1>4. QED
  BY <1>2, <1>3, Quiet DEF tracer, plant, mode

LEMMA ProgramStep == IInv /\ TypeOK' /\ Program => IInv'
<1> SUFFICES ASSUME IInv, TypeOK', Program PROVE IInv'
  OBVIOUS
<1>0. Main \in Threads
  BY ConstAssumption
<1>1. ASSUME NEW t \in Threads, Jump(t) \/ Call(t) \/ Ret(t) PROVE IInv'
  BY <1>1, ArriveStep DEF Jump, Call, Ret, Ahead
<1>2. ASSUME NEW t \in Threads, DllStep(t) \/ Callback(t) \/ Unwind(t) PROVE IInv'
  BY <1>2, ArriveStep DEF DllStep, Callback, Unwind
<1>3. ASSUME StartMain PROVE IInv'
  BY <1>0, <1>3, ArriveStep DEF StartMain
<1>4. ASSUME LoadDll PROVE IInv'
  <2>1. NoCreate
    BY <1>0, <1>4, PastCreate DEF LoadDll
  <2>2. PICK d \in Dlls : Raise(Main, "load", d[1])
    BY <1>4 DEF LoadDll
  <2>3. QED
    BY <1>0, <1>4, <2>1, <2>2, RaiseStep DEF LoadDll
<1>5. ASSUME LoaderBreak PROVE IInv'
  <2>1. NoCreate
    BY <1>0, <1>5, PastCreate DEF LoaderBreak
  <2>2. QED
    BY <1>0, <1>5, <2>1, RaiseStep DEF LoaderBreak
<1>6. ASSUME NEW t \in Threads, HitInt3(t) PROVE IInv'
  <2>1. NoCreate
    BY <1>6, PastCreate DEF HitInt3
  <2>2. QED
    BY <1>6, <2>1, RaiseStep DEF HitInt3
<1>7. ASSUME NEW t \in Threads, Benign(t) \/ Fault(t) \/ Exit(t) PROVE IInv'
  <2>1. Ntdll[1] \notin Wild \union {Skid}
    BY ConstAssumption, Places DEF Code
  <2>2. NoCreate
    BY <1>7, <2>1, PastCreate DEF Benign, Fault, Exit, Ahead
  <2>3. PICK k \in {"benign", "fault", "exit"} : Raise(t, k, rip[t])
    BY <1>7 DEF Benign, Fault, Exit
  <2>4. QED
    BY <1>7, <2>2, <2>3, RaiseStep DEF Benign, Fault, Exit
<1>8. QED
  BY <1>1, <1>2, <1>3, <1>4, <1>5, <1>6, <1>7 DEF Program

(* After a handler nothing is pending for its thread, and the rest stays.  *)
LEMMA Answered ==
  ASSUME IInv, NEW t \in Threads, Continue(t)
  PROVE /\ event'[t] = NoEvent
        /\ \A u \in Threads \ {t} : event'[u] = event[u]
  BY DEF IInv, TypeOK, Continue

LEMMA HandleStep ==
  ASSUME IInv, TypeOK', NEW t \in Threads, Handle(t) PROVE IInv'
<1> USE DEF cpu, plant, mode, log, outside
<1>0. TypeOK /\ Main \in Threads
  BY ConstAssumption DEF IInv
<1>1. ASSUME NoCreate, Continue(t) PROVE NoCreate' /\ Start'
  <2>1. \A u \in Threads : event'[u] = event[u] \/ event'[u] = NoEvent
    BY <1>1, Answered
  <2>2. NoCreate'
    BY <1>1, <2>1 DEF NoCreate, NoEvent
  <2>3. QED
    BY <2>2 DEF NoCreate, Start
<1>2. ASSUME Continue(t), NEW u \in Threads, event'[u][1] = "step"
      PROVE event[u][1] = "step" /\ u # t
  BY <1>2, Answered DEF NoEvent
<1>3. CASE CreateProcess(t)
  <2>1. /\ t = Main /\ first_bp_seen = FALSE /\ entry_bp = Absent
        /\ \A u \in Threads \ {t} : event[u] = NoEvent
    BY <1>3 DEF CreateProcess, Reported, IInv, Start
  <2>2. bp_addr = Absent /\ \A u \in Threads : ~Watched(u)
    BY <2>1 DEF IInv, Early
  <2>3. \A u \in Threads : event'[u] = NoEvent
    BY <1>3, <2>1, Answered DEF CreateProcess
  <2>4. \A u \in Threads : ~Watched(u)'
    BY <1>3, <2>2, <2>3 DEF Watched, NoEvent, CreateProcess
  <2>5. \A a \in MainCode : mem[a] # "int3"
    BY <2>1, <2>2, Places DEF IInv, BytesAccounted
  <2>6. BytesAccounted'
    <3>1. \A a \in MainCode : mem'[a] = "int3" <=> a = entry_rva
      BY <1>0, <1>3, <2>5, Places
         DEF CreateProcess, WriteMem, TypeOK
    <3>2. entry_bp' = entry_rva /\ bp_addr' = Absent /\ bp_orig' = "insn"
      BY <1>3, <2>2 DEF CreateProcess, IInv, BytesAccounted
    <3>3. QED
      BY <3>1, <3>2, Places DEF BytesAccounted
  <2>7. Start'
    BY <2>3 DEF Start, NoEvent
  <2>8. bp_addr' = Absent
    BY <1>3, <2>2 DEF CreateProcess
  <2>9. QED
    BY <2>4, <2>6, <2>7, <2>8 DEF IInv, OnlyMain, Early
<1>4. CASE \/ LoadDllEvent(t) \/ ForeignBp(t) \/ PassCode(t) \/ RunFree(t)
  <2>1. NoCreate /\ Continue(t)
    BY <1>4, PastCreate
       DEF LoadDllEvent, ForeignBp, PassCode, RunFree, Reported
  <2>2. \A u \in Threads : Watched(u)' => Watched(u)
    <3>1. \A u \in Threads : tf'[u] = tf[u] \/ tf'[u] = FALSE
      BY <1>0, <1>4
         DEF LoadDllEvent, ForeignBp, PassCode, RunFree, SetTF, TypeOK
    <3>2. QED
      BY <1>2, <2>1, <3>1 DEF Watched
  <2>3. UNCHANGED <<mem, bp_addr, bp_orig, entry_bp, first_bp_seen>>
    BY <1>4 DEF LoadDllEvent, ForeignBp, PassCode, RunFree
  <2>4. QED
    BY <1>1, <2>1, <2>2, <2>3, Quiet
<1>5. CASE ExitProcess(t) \/ WildBranch(t) \/ RealException(t)
  <2>1. UNCHANGED <<cpu, tf, mem, plant, mode, event, loaded>>
    BY <1>5 DEF ExitProcess, WildBranch, RealException, Stop
  <2>2. Start'
    BY <2>1 DEF IInv, Start
  <2>3. QED
    BY <2>1, <2>2, Quiet DEF Watched
<1>6. CASE StepInImage(t)
  <2>1. t = Main
    BY <1>6 DEF StepInImage, Reported, IInv, OnlyMain, Watched
  <2>2. NoCreate /\ Continue(t)
    BY <1>6, PastCreate DEF StepInImage, Reported
  <2>3. \A u \in Threads : Watched(u)' => Watched(u)
    <3>1. Watched(Main)
      BY <1>6, <2>1 DEF StepInImage, Reported, Watched
    <3>2. \A u \in Threads \ {Main} : tf'[u] = tf[u]
      BY <1>0, <1>6 DEF StepInImage, SetTF, TypeOK
    <3>3. QED
      BY <1>2, <2>2, <3>1, <3>2 DEF Watched
  <2>4. UNCHANGED <<mem, bp_addr, bp_orig, entry_bp, first_bp_seen>>
    BY <1>6 DEF StepInImage
  <2>5. QED
    BY <1>1, <2>2, <2>3, <2>4, Quiet
<1>7. CASE FirstBp(t)
  <2>1. NoCreate /\ Continue(t)
    BY <1>7, PastCreate DEF FirstBp, Reported
  <2>2. bp_addr = Absent /\ (\A u \in Threads : ~Watched(u))
    BY <1>7 DEF FirstBp, IInv, Early
  <2>3. bp_addr' = Absent /\ entry_bp' = entry_bp
    BY <1>7, <2>2 DEF FirstBp
  <2>4. \A u \in Threads : Watched(u)' => u = Main /\ entry_bp = Absent
    BY <1>0, <1>2, <1>7, <2>1, <2>2 DEF FirstBp, SetTF, Watched, TypeOK
  <2>5. BytesAccounted'
    BY <1>7 DEF FirstBp, IInv, BytesAccounted
  <2>6. first_bp_seen' = TRUE
    BY <1>7 DEF FirstBp
  <2>7. OnlyMain' /\ Early'
    BY <2>3, <2>4, <2>6 DEF OnlyMain, Early
  <2>8. QED
    BY <1>1, <2>1, <2>3, <2>5, <2>7 DEF IInv
<1>8. CASE EntryBp(t)
  <2>1. NoCreate /\ Continue(t)
    BY <1>8, PastCreate DEF EntryBp, Reported
  <2>2. entry_bp # Absent /\ bp_addr = Absent /\ (\A u \in Threads : ~Watched(u))
    BY <1>8 DEF EntryBp, IInv, Early
  <2>3. bp_addr' = Absent /\ entry_bp' = Absent /\ first_bp_seen' = TRUE
    BY <1>0, <1>8, <2>2 DEF EntryBp, TypeOK
  <2>4. \A u \in Threads : Watched(u)' => u = Main
    BY <1>0, <1>2, <1>8, <2>1, <2>2 DEF EntryBp, SetTF, Watched, TypeOK
  <2>5. \A a \in MainCode : mem'[a] # "int3"
    BY <1>0, <1>8, <2>2, Places
       DEF EntryBp, WriteMem, TypeOK, IInv, BytesAccounted
  <2>6. bp_orig' = "insn"
    BY <1>8 DEF EntryBp, IInv, BytesAccounted
  <2>7. BytesAccounted'
    BY <2>3, <2>5, <2>6, Places DEF BytesAccounted
  <2>8. OnlyMain' /\ Early'
    BY <2>3, <2>4 DEF OnlyMain, Early
  <2>9. QED
    BY <1>1, <2>1, <2>3, <2>7, <2>8 DEF IInv
<1>9. CASE OneShotBp(t)
  <2>1. NoCreate /\ Continue(t)
    BY <1>9, PastCreate DEF OneShotBp, Reported
  <2>2. entry_bp = Absent /\ first_bp_seen = TRUE /\ \A u \in Threads : ~Watched(u)
    BY <1>0, <1>9 DEF OneShotBp, IInv, Early, TypeOK
  <2>3. bp_addr' = Absent /\ entry_bp' = Absent /\ first_bp_seen' = TRUE
    BY <1>9, <2>2 DEF OneShotBp, ClearBp
  <2>4. \A u \in Threads : Watched(u)' => u = Main
    BY <1>0, <1>2, <1>9, <2>1, <2>2 DEF OneShotBp, SetTF, Watched, TypeOK
  <2>5. bp_orig' = "insn" /\ bp_orig = "insn"
    BY <1>9 DEF OneShotBp, ClearBp, IInv, BytesAccounted
  <2>6. \A a \in MainCode : mem'[a] # "int3"
    <3>1. mem' = [mem EXCEPT ![bp_addr] = "insn"]
      BY <1>9, <2>5 DEF OneShotBp, ClearBp, WriteMem
    <3>2. \A a \in MainCode : a # bp_addr => mem[a] # "int3"
      BY <2>2, Places DEF IInv, BytesAccounted
    <3>3. QED
      BY <1>0, <3>1, <3>2 DEF TypeOK
  <2>7. BytesAccounted'
    BY <2>3, <2>5, <2>6, Places DEF BytesAccounted
  <2>8. OnlyMain' /\ Early'
    BY <2>3, <2>4 DEF OnlyMain, Early
  <2>9. QED
    BY <1>1, <2>1, <2>3, <2>7, <2>8 DEF IInv
<1>10. CASE StepOver(t)
  <2>1. NoCreate /\ Continue(t)
    BY <1>10, PastCreate DEF StepOver, Reported
  <2>2. Watched(t) /\ t = Main /\ bp_addr = Absent
    BY <1>10 DEF StepOver, Reported, IInv, OnlyMain, Watched
  <2>3. entry_bp = Absent /\ first_bp_seen = TRUE
    BY <1>0, <2>2 DEF IInv, Early, TypeOK
  <2>4. \A u \in Threads : ~Watched(u)'
    <3>1. tf' = [tf EXCEPT ![Main] = FALSE]
      BY <1>10 DEF StepOver, SetTF
    <3>2. \A u \in Threads : u # Main => ~Watched(u)
      BY DEF IInv, OnlyMain
    <3>3. QED
      BY <1>0, <1>2, <2>1, <2>2, <3>1, <3>2 DEF Watched, TypeOK
  <2>5. PICK r \in MainCode :
          /\ bp_addr' = r /\ bp_orig' = mem[r]
          /\ mem' = [mem EXCEPT ![r] = "int3"]
    BY <1>10 DEF StepOver, InMain, ArmBp, WriteMem
  <2>6. \A a \in MainCode : mem[a] # "int3"
    BY <2>2, <2>3, Places DEF IInv, BytesAccounted
  <2>7. entry_bp' = Absent /\ first_bp_seen' = TRUE
    BY <1>10, <2>3 DEF StepOver
  <2>8. BytesAccounted'
    <3>1. bp_orig' = "insn"
      BY <1>0, <2>5, <2>6 DEF TypeOK, Bytes
    <3>2. \A a \in MainCode : mem'[a] = "int3" <=> a = r
      BY <1>0, <2>5, <2>6 DEF TypeOK
    <3>3. QED
      BY <2>5, <2>7, <3>1, <3>2, Places DEF BytesAccounted
  <2>9. OnlyMain' /\ Early'
    BY <2>4, <2>7 DEF OnlyMain, Early
  <2>10. QED
    BY <1>1, <2>1, <2>4, <2>8, <2>9 DEF IInv
<1>11. QED
  BY <1>3, <1>4, <1>5, <1>6, <1>7, <1>8, <1>9, <1>10 DEF Handle

LEMMA IInvStep == IInv /\ [Next]_vars => IInv'
<1> SUFFICES ASSUME IInv, [Next]_vars PROVE IInv'
  OBVIOUS
<1>1. TypeOK'
  BY TypeStep DEF IInv
<1>2. CASE Timeout
  <2>1. UNCHANGED <<cpu, tf, mem, plant, mode, event, loaded>>
    BY <1>2 DEF Timeout, Stop, outside
  <2>2. Start'
    BY <2>1 DEF IInv, Start, cpu, plant, mode
  <2>3. QED
    BY <1>1, <2>1, <2>2, Quiet DEF Watched, cpu, plant, mode
<1>3. CASE UNCHANGED vars
  BY <1>1, <1>3
     DEF vars, debuggee, tracer, plant, mode, log, IInv, BytesAccounted,
         OnlyMain, Early, Start, Watched
<1>4. QED
  BY <1>1, <1>2, <1>3, ProgramStep, HandleStep DEF Next

LEMMA IInvInductive == Spec => []IInv
  BY IInvStep, InitIInv, PTL DEF Spec

(* Whatever the program does, with any number of threads, callbacks and    *)
(* unwinding: every INT3 in the image is one the tracer knows, and what it *)
(* saved is the program's own byte.                                        *)
THEOREM Accounted == Spec => []BytesAccounted
<1>1. IInv => BytesAccounted
  BY DEF IInv
<1>2. QED
  BY <1>1, IInvInductive, PTL

(* Before the program starts no thread is in the image; when the main      *)
(* thread is behind an INT3, the breakpoint it reports is still one of the *)
(* two, so that the answer puts it back.                                   *)
Awake ==
  /\ boot # "started" =>
       \A t \in Threads : rip[t] = Ntdll[1] /\ stack[t] = <<>>
  /\ boot # "started" =>
       \A t \in Threads : event[t][1] = "break" => event[t][2] = Ntdll[1]
  /\ boot = "ready" /\ event[Main][1] # "break" => first_bp_seen = TRUE
  /\ boot = "started" => first_bp_seen = TRUE
  /\ rip[Main] = Skid =>
       /\ event[Main][1] = "break"
       /\ event[Main][2] \in MainCode \intersect {entry_bp, bp_addr}

LEMMA AwakeInit == Init => Awake
<1> SUFFICES ASSUME Init PROVE Awake
  OBVIOUS
<1>1. Ntdll[1] # Skid /\ Main \in Threads
  BY ConstAssumption
<1>2. \A t \in Threads : event[t][1] # "break"
  BY DEF Init, NoEvent
<1>3. QED
  BY <1>1, <1>2 DEF Init, Awake

(* A step that moves no thread and answers or raises no breakpoint.        *)
LEMMA AwakeQuiet ==
  ASSUME Awake, Main \in Threads,
         \A u \in Threads :
           \/ event'[u] = event[u]
           \/ event[u][1] # "break" /\ event'[u][1] # "break",
         UNCHANGED <<rip, stack, boot, first_bp_seen>>,
         UNCHANGED <<entry_bp, bp_addr>> \/ rip[Main] # Skid
  PROVE Awake'
BY DEF Awake

(* A step of the processor in a program that has started.                  *)
LEMMA AwakeArrive ==
  ASSUME TypeOK, Awake, boot = "started", boot' = boot, NEW t \in Threads,
         Running(t), NEW a, a # Skid, NEW frames, Arrive(t, a, frames)
  PROVE Awake'
<1>1. UNCHANGED <<entry_bp, bp_addr, first_bp_seen>>
  BY DEF Arrive, tracer, plant, mode
<1>2. rip'[Main] = IF t = Main THEN a ELSE rip[Main]
  BY ConstAssumption DEF TypeOK, Arrive
<1>3. t # Main => event'[Main] = event[Main]
  BY ConstAssumption DEF TypeOK, Arrive, Raise
<1>4. QED
  BY <1>1, <1>2, <1>3 DEF Awake

LEMMA AwakeProgram == IInv /\ Awake /\ Program => Awake'
<1> SUFFICES ASSUME IInv, Awake, Program PROVE Awake'
  OBVIOUS
<1>0. /\ TypeOK /\ Main \in Threads /\ Ntdll[1] # Skid
      /\ Ntdll[1] \notin MainCode /\ Skid \notin Code
  <2>1. Skid \notin DllCode
    BY ConstAssumption DEF DllCode, Skid
  <2>2. QED
    BY <2>1, Places, ConstAssumption DEF IInv, Code
<1>a. ASSUME NEW t \in Threads, InImage(t) \/ stack[t] # <<>> PROVE boot = "started"
  BY <1>0, <1>a DEF Awake, InImage
<1>b. ASSUME NEW t \in Threads, Running(t) PROVE event[t] = NoEvent
  BY <1>b DEF Running
<1>c. Skid \notin Callable
  BY <1>0, ConstAssumption DEF Callable, Code, DllCode, TypeOK
<1>1. ASSUME NEW t \in Threads, Jump(t) \/ Call(t) PROVE Awake'
  <2>1. boot = "started" /\ Running(t) /\ boot' = boot
    BY <1>1, <1>a DEF Jump, Call, Ahead
  <2>2. PICK a \in Callable : \E frames : Arrive(t, a, frames)
    BY <1>1 DEF Jump, Call
  <2>3. QED
    BY <1>0, <1>c, <2>1, <2>2, AwakeArrive
<1>2. ASSUME NEW t \in Threads, Ret(t) PROVE Awake'
  <2>1. boot = "started" /\ Running(t) /\ boot' = boot
    BY <1>2, <1>a DEF Ret
  <2>2. stack[t] \in Seq(Code) /\ stack[t] # <<>>
    BY <1>0, <1>2 DEF TypeOK, Ret
  <2>3. Head(stack[t]) # Skid
    BY <1>0, <2>2
  <2>4. QED
    BY <1>0, <1>2, <2>1, <2>3, AwakeArrive DEF Ret
<1>3. ASSUME NEW t \in Threads, DllStep(t) PROVE Awake'
  <2>1. /\ UNCHANGED <<boot, first_bp_seen, entry_bp, bp_addr>>
        /\ event[t] = NoEvent
        /\ Arrive(t, rip[t], stack[t])
    BY <1>3, <1>b DEF DllStep, Arrive, tracer, plant, mode
  <2>2. rip' = rip /\ stack' = stack
    BY <1>0, <2>1 DEF Arrive, TypeOK
  <2>3. event' = event \/ event' = [event EXCEPT ![t] = <<"step", rip[t]>>]
    BY <2>1 DEF Arrive, Raise
  <2>4. \A u \in Threads :
          \/ event'[u] = event[u]
          \/ event[u][1] # "break" /\ event'[u][1] # "break"
    BY <1>0, <2>1, <2>3 DEF NoEvent, TypeOK
  <2>5. QED
    BY <1>0, <2>1, <2>2, <2>4, AwakeQuiet
<1>4. ASSUME NEW t \in Threads, Callback(t) PROVE Awake'
  <2>1. boot = "started" /\ Running(t) /\ boot' = boot
    BY <1>4 DEF Callback
  <2>2. PICK a \in MainCode : Arrive(t, a, <<rip[t]>> \o stack[t])
    BY <1>4 DEF Callback
  <2>3. QED
    BY <1>0, <2>1, <2>2, AwakeArrive DEF Code
<1>5. ASSUME NEW t \in Threads, Unwind(t) PROVE Awake'
  <2>1. stack[t] \in Seq(Code) /\ Len(stack[t]) > 1
    BY <1>0, <1>5 DEF TypeOK, Unwind
  <2>2. boot = "started" /\ Running(t) /\ boot' = boot
    BY <1>5, <1>a, <2>1 DEF Unwind
  <2>3. PICK n \in 2 .. Len(stack[t]) :
          Arrive(t, stack[t][n], SubSeq(stack[t], n + 1, Len(stack[t])))
    BY <1>5 DEF Unwind
  <2>4. stack[t][n] # Skid
    BY <1>0, <2>1
  <2>5. QED
    BY <1>0, <2>2, <2>3, <2>4, AwakeArrive
<1>6. CASE StartMain
  <2>1. /\ boot = "ready" /\ boot' = "started" /\ event[Main] = NoEvent
        /\ Arrive(Main, Entry, <<rip[Main]>>)
    BY <1>0, <1>6, <1>b DEF StartMain
  <2>2. first_bp_seen = TRUE /\ first_bp_seen' = first_bp_seen
    BY <2>1 DEF Awake, NoEvent, Arrive, tracer, mode
  <2>3. rip'[Main] = Entry /\ Entry # Skid
    BY <1>0, <2>1, ConstAssumption DEF Arrive, TypeOK, Code
  <2>4. QED
    BY <2>1, <2>2, <2>3 DEF Awake
<1>7. CASE LoadDll
  <2>1. PICK d \in Dlls : Raise(Main, "load", d[1])
    BY <1>7 DEF LoadDll
  <2>2. event[Main] = NoEvent /\ event' = [event EXCEPT ![Main] = <<"load", d[1]>>]
    BY <1>0, <1>7, <1>b, <2>1 DEF LoadDll, Raise
  <2>3. UNCHANGED <<rip, stack, boot, first_bp_seen, entry_bp, bp_addr>>
    BY <1>7 DEF LoadDll, tracer, plant, mode
  <2>4. \A u \in Threads :
          \/ event'[u] = event[u]
          \/ event[u][1] # "break" /\ event'[u][1] # "break"
    BY <1>0, <2>2 DEF NoEvent, TypeOK
  <2>5. QED
    BY <1>0, <2>3, <2>4, AwakeQuiet
<1>8. CASE LoaderBreak
  <2>1. /\ boot = "loading" /\ boot' = "ready"
        /\ event' = [event EXCEPT ![Main] = <<"break", rip[Main]>>]
        /\ UNCHANGED <<rip, stack>>
    BY <1>8 DEF LoaderBreak, Raise
  <2>2. /\ \A t \in Threads : rip[t] = Ntdll[1] /\ stack[t] = <<>>
        /\ \A t \in Threads : event[t][1] = "break" => event[t][2] = Ntdll[1]
    BY <2>1 DEF Awake
  <2>3. event'[Main] = <<"break", Ntdll[1]>>
        /\ \A t \in Threads : t # Main => event'[t] = event[t]
    BY <1>0, <2>1, <2>2 DEF TypeOK
  <2>4. QED
    BY <1>0, <2>1, <2>2, <2>3 DEF Awake
<1>9. ASSUME NEW t \in Threads, HitInt3(t) PROVE Awake'
  <2>1. /\ boot = "started" /\ rip[t] \in MainCode /\ mem[rip[t]] = "int3"
        /\ event' = [event EXCEPT ![t] = <<"break", rip[t]>>]
        /\ rip' = [rip EXCEPT ![t] = Skid]
        /\ UNCHANGED <<boot, first_bp_seen, entry_bp, bp_addr>>
    BY <1>9, <1>a DEF HitInt3, InImage, Raise, tracer, plant, mode
  <2>2. rip[t] \in {entry_bp, bp_addr}
    BY <2>1 DEF IInv, BytesAccounted
  <2>3. t # Main => rip'[Main] = rip[Main] /\ event'[Main] = event[Main]
    BY <1>0, <2>1 DEF TypeOK
  <2>4. t = Main => event'[Main] = <<"break", rip[Main]>>
    BY <1>0, <2>1 DEF TypeOK
  <2>5. QED
    BY <1>0, <2>1, <2>2, <2>3, <2>4 DEF Awake
<1>10. ASSUME NEW t \in Threads, Benign(t) \/ Fault(t) \/ Exit(t) PROVE Awake'
  <2>1. PICK k \in {"benign", "fault", "exit"} : Raise(t, k, rip[t])
    BY <1>10 DEF Benign, Fault, Exit
  <2>2. event[t] = NoEvent /\ event' = [event EXCEPT ![t] = <<k, rip[t]>>]
    BY <1>10, <1>b, <2>1 DEF Benign, Fault, Exit, Raise
  <2>3. UNCHANGED <<rip, stack, boot, first_bp_seen, entry_bp, bp_addr>>
    BY <1>10 DEF Benign, Fault, Exit, tracer, plant, mode
  <2>4. \A u \in Threads :
          \/ event'[u] = event[u]
          \/ event[u][1] # "break" /\ event'[u][1] # "break"
    BY <1>0, <2>2 DEF NoEvent, TypeOK
  <2>5. QED
    BY <1>0, <2>3, <2>4, AwakeQuiet
<1>11. QED
  BY <1>1, <1>2, <1>3, <1>4, <1>5, <1>6, <1>7, <1>8, <1>9, <1>10 DEF Program

LEMMA AwakeHandle ==
  ASSUME IInv, Awake, NEW t \in Threads, Handle(t)
  PROVE Awake'
<1> USE DEF cpu, plant, mode, log, outside
<1>0. TypeOK /\ Main \in Threads /\ Ntdll[1] # Skid /\ Ntdll[1] \notin MainCode
  BY Places, ConstAssumption DEF IInv
<1>a. rip[Main] = Skid => event[Main][1] = "break"
  BY DEF Awake
<1>1. CASE \/ CreateProcess(t) \/ LoadDllEvent(t) \/ PassCode(t)
           \/ StepInImage(t) \/ StepOver(t) \/ RunFree(t)
  <2>1. /\ event' = [event EXCEPT ![t] = NoEvent] /\ event[t][1] # "break"
        /\ UNCHANGED <<rip, stack, boot, first_bp_seen>>
    BY <1>1 DEF CreateProcess, LoadDllEvent, PassCode, StepInImage, StepOver,
                RunFree, Reported, Continue
  <2>2. UNCHANGED <<entry_bp, bp_addr>> \/ rip[Main] # Skid
    <3>1. CASE CreateProcess(t) \/ StepOver(t)
      <4>1. t = Main
        BY <3>1 DEF CreateProcess, StepOver, Reported, IInv, Start, OnlyMain, Watched
      <4>2. QED
        BY <1>a, <2>1, <4>1
    <3>2. QED
      BY <1>1, <3>1 DEF LoadDllEvent, PassCode, StepInImage, RunFree
  <2>3. \A u \in Threads :
          \/ event'[u] = event[u]
          \/ event[u][1] # "break" /\ event'[u][1] # "break"
    BY <1>0, <2>1 DEF NoEvent, TypeOK
  <2>4. QED
    BY <1>0, <2>1, <2>2, <2>3, AwakeQuiet
<1>2. CASE ExitProcess(t) \/ WildBranch(t) \/ RealException(t)
  <2>1. UNCHANGED <<event, rip, stack, boot, first_bp_seen, entry_bp, bp_addr>>
    BY <1>2 DEF ExitProcess, WildBranch, RealException, Stop
  <2>2. QED
    BY <1>0, <2>1, AwakeQuiet
<1>3. CASE FirstBp(t)
  <2>1. /\ event' = [event EXCEPT ![t] = NoEvent]
        /\ first_bp_seen = FALSE /\ first_bp_seen' = TRUE
        /\ UNCHANGED <<rip, stack, boot, entry_bp, bp_addr>>
    BY <1>0, <1>3 DEF FirstBp, Continue, TypeOK
  <2>2. boot # "started" /\ rip[Main] # Skid
    BY <1>0, <2>1 DEF Awake
  <2>3. \A u \in Threads : event'[u] = event[u] \/ event'[u] = NoEvent
    BY <1>0, <2>1 DEF TypeOK
  <2>4. QED
    BY <1>0, <2>1, <2>2, <2>3 DEF Awake, NoEvent
<1>4. CASE ForeignBp(t)
  <2>1. /\ event' = [event EXCEPT ![t] = NoEvent] /\ first_bp_seen = TRUE
        /\ event[t][2] \notin {entry_bp, bp_addr}
        /\ UNCHANGED <<rip, stack, boot, entry_bp, bp_addr, first_bp_seen>>
    BY <1>0, <1>4 DEF ForeignBp, Continue, Addr, TypeOK
  <2>2. \A u \in Threads : event'[u] = IF u = t THEN NoEvent ELSE event[u]
    BY <1>0, <2>1 DEF TypeOK
  <2>3. QED
    BY <1>0, <2>1, <2>2 DEF Awake, NoEvent
<1>5. CASE EntryBp(t) \/ OneShotBp(t)
  <2>1. /\ event[t][1] = "break" /\ event[t][2] \in MainCode
        /\ first_bp_seen = TRUE
        /\ rip' = [rip EXCEPT ![Main] = event[t][2]]
        /\ UNCHANGED <<boot, first_bp_seen>>
    BY <1>0, <1>5 DEF EntryBp, OneShotBp, Reported, Rewind, Addr, TypeOK
  <2>2. boot = "started"
    BY <1>0, <2>1 DEF Awake
  <2>3. rip'[Main] # Skid
    BY <1>0, <2>1, Places DEF TypeOK
  <2>4. QED
    BY <2>1, <2>2, <2>3 DEF Awake
<1>6. QED
  BY <1>1, <1>2, <1>3, <1>4, <1>5 DEF Handle

(* With any number of threads, callbacks and unwinding, although the       *)
(* tracer answers every breakpoint on the context of the main thread: that *)
(* thread is behind an INT3 only while the tracer is about to put it back. *)
THEOREM MainIsWhole == Spec => []MainWhole
<1>1. Awake => MainWhole
  BY DEF Awake, MainWhole
<1>2. IInv /\ Awake /\ [Next]_vars => Awake'
  <2> SUFFICES ASSUME IInv, Awake, [Next]_vars PROVE Awake'
    OBVIOUS
  <2>1. CASE Timeout \/ UNCHANGED vars
    <3>1. UNCHANGED <<rip, stack, boot, first_bp_seen, event, entry_bp, bp_addr>>
      BY <2>1 DEF Timeout, Stop, vars, debuggee, tracer, cpu, plant, mode, outside
    <3>2. QED
      BY <3>1 DEF Awake
  <2>2. QED
    BY <2>1, AwakeProgram, AwakeHandle DEF Next
<1>3. QED
  BY <1>1, <1>2, AwakeInit, IInvInductive, PTL DEF Spec

(* No one-shot breakpoint is armed while the trap flag is on or a step is  *)
(* reported, so none is overwritten before it fired.                       *)
THEOREM OneWay == Spec => []OneWayBack
<1>1. IInv => OneWayBack
  BY DEF IInv, OneWayBack, Watched, TypeOK
<1>2. QED
  BY <1>1, IInvInductive, PTL

-----------------------------------------------------------------------------
(* The ring and the trail: what Note does to either.                       *)

(* n is q with a noted, s places of it dropped.                            *)
Noting(q, a, n, s) ==
  /\ s \in {0, 1}
  /\ Len(n) = Len(q) + 1 - s
  /\ s = 1 => Len(q) >= RingMax
  /\ Len(q) <= RingMax => Len(n) <= RingMax
  /\ \A i \in 1 .. Len(n) : n[i] = IF i + s = Len(q) + 1 THEN a ELSE q[i + s]

LEMMA NoteParts ==
  ASSUME NEW S, NEW q \in Seq(S), NEW a \in S
  PROVE \E s \in {0, 1} : Noting(q, a, Note(q, a), s)
<1> DEFINE longer == Append(q, a)
<1>1. /\ longer \in Seq(S) /\ Len(longer) = Len(q) + 1 /\ longer # <<>>
      /\ \A i \in 1 .. Len(q) + 1 :
           longer[i] = IF i = Len(q) + 1 THEN a ELSE q[i]
  BY AppendProperties
<1>2. Note(q, a) = IF Len(longer) > RingMax THEN Tail(longer) ELSE longer
  BY DEF Note
<1>3. /\ Len(Tail(longer)) = Len(longer) - 1
      /\ \A i \in 1 .. Len(longer) - 1 : Tail(longer)[i] = longer[i + 1]
  BY <1>1, HeadTailProperties
<1> HIDE DEF longer
<1>4. Len(q) \in Nat /\ RingMax \in Nat \ {0}
  BY ConstAssumption
<1>5. CASE Len(longer) > RingMax
  <2>1. Noting(q, a, Tail(longer), 1)
    BY <1>1, <1>3, <1>4, <1>5 DEF Noting
  <2>2. QED
    BY <1>2, <1>5, <2>1
<1>6. CASE ~(Len(longer) > RingMax)
  <2>1. Noting(q, a, longer, 0)
    BY <1>1, <1>4, <1>6 DEF Noting
  <2>2. QED
    BY <1>2, <1>6, <2>1
<1>7. QED
  BY <1>5, <1>6

LEMMA ShiftedCount ==
  ASSUME NEW A \in SUBSET Nat, NEW B \in SUBSET Nat, NEW s \in Nat,
         IsFiniteSet(A), B = {j + s : j \in A}
  PROVE IsFiniteSet(B) /\ Cardinality(B) = Cardinality(A)
<1> DEFINE f == [j \in A |-> j + s]
<1>1. f \in Bijection(A, B)
  BY DEF Bijection, Injection, Surjection, IsInjective
<1>2. QED
  BY <1>1, FS_Bijection DEF ExistsBijection

LEMMA BehindFinite ==
  ASSUME NEW places \in Seq(Visits), NEW i \in Nat
  PROVE /\ IsFiniteSet({j \in i .. Len(places) : places[j].inner})
        /\ Behind(places, i) \in Nat
        /\ i \in 1 .. Len(places) => Behind(places, i) <= Len(places) - i + 1
<1> DEFINE A == {j \in i .. Len(places) : places[j].inner}
<1>1. /\ IsFiniteSet(i .. Len(places))
      /\ i <= Len(places) => Cardinality(i .. Len(places)) = Len(places) - i + 1
  BY FS_Interval
<1>2. A \in SUBSET (i .. Len(places))
  OBVIOUS
<1>3. IsFiniteSet(A) /\ Cardinality(A) <= Cardinality(i .. Len(places))
  BY <1>1, <1>2, FS_Subset
<1>4. Cardinality(A) \in Nat
  BY <1>3, FS_CardinalityType
<1>5. QED
  BY <1>1, <1>3, <1>4 DEF Behind

(* How many there are from a place on, after one more was noted.           *)
LEMMA BehindNote ==
  ASSUME NEW q \in Seq(Visits), NEW v \in Visits, NEW n \in Seq(Visits), NEW s,
         Noting(q, v, n, s), NEW i \in 1 .. Len(n)
  PROVE Behind(n, i) =
          (IF i + s = Len(q) + 1 THEN 0 ELSE Behind(q, i + s))
            + (IF v.inner THEN 1 ELSE 0)
<1> DEFINE A == {j \in i .. Len(n) : n[j].inner}
           B == {j \in i + s .. Len(q) : q[j].inner}
           C == IF v.inner THEN B \union {Len(q) + 1} ELSE B
<1>1. /\ s \in {0, 1} /\ Len(n) = Len(q) + 1 - s
      /\ Len(q) \in Nat /\ Len(n) \in Nat
      /\ \A k \in 1 .. Len(n) : n[k] = IF k + s = Len(q) + 1 THEN v ELSE q[k + s]
  BY DEF Noting
<1>2. IsFiniteSet(A) /\ IsFiniteSet(B)
  <2>1. i \in Nat /\ i + s \in Nat
    BY <1>1
  <2>2. QED
    BY <2>1, BehindFinite
<1>3. C = {j + s : j \in A}
  <2>1. ASSUME NEW j \in A PROVE j + s \in C
    <3>1. j \in i .. Len(n) /\ n[j].inner
      OBVIOUS
    <3>2. n[j] = IF j + s = Len(q) + 1 THEN v ELSE q[j + s]
      BY <1>1, <3>1
    <3>3. CASE j + s = Len(q) + 1
      BY <3>1, <3>2, <3>3
    <3>4. CASE j + s # Len(q) + 1
      <4>1. j + s \in i + s .. Len(q)
        <5>1. i \in Nat /\ j \in Nat /\ i <= j /\ j <= Len(n)
          BY <1>1, <3>1
        <5>2. CASE s = 0
          BY <1>1, <3>4, <5>1, <5>2
        <5>3. CASE s = 1
          <6>1. Len(q) \in Nat /\ Len(n) = Len(q) /\ j + 1 # Len(q) + 1
            BY <1>1, <3>4, <5>3
          <6>2. j + 1 <= Len(q) /\ i + 1 <= j + 1
            BY <5>1, <6>1
          <6>3. j + 1 \in i + 1 .. Len(q)
            BY <5>1, <6>1, <6>2
          <6>4. QED
            BY <5>3, <6>3
        <5>4. QED
          BY <1>1, <5>2, <5>3
      <4>2. QED
        BY <3>1, <3>2, <3>4, <4>1
    <3>5. QED
      BY <3>3, <3>4
  <2>2. ASSUME NEW k \in C PROVE k - s \in A /\ k = (k - s) + s
    <3>1. k \in i + s .. Len(q) + 1
      BY <1>1
    <3>2. k - s \in i .. Len(n) /\ k = (k - s) + s
      BY <1>1, <3>1
    <3>3. n[k - s] = IF k = Len(q) + 1 THEN v ELSE q[k]
      BY <1>1, <3>2
    <3>4. k # Len(q) + 1 => q[k].inner
      OBVIOUS
    <3>5. k = Len(q) + 1 => v.inner
      BY <1>1
    <3>6. QED
      BY <3>2, <3>3, <3>4, <3>5
  <2> HIDE DEF A, C
  <2>3. QED
    BY <2>1, <2>2
<1>4. Cardinality(A) = Cardinality(C)
  <2>1. A \in SUBSET Nat /\ C \in SUBSET Nat /\ s \in Nat
    BY <1>1
  <2> HIDE DEF A, C
  <2>2. QED
    BY <1>2, <1>3, <2>1, ShiftedCount
<1>5. Cardinality(C) = Cardinality(B) + (IF v.inner THEN 1 ELSE 0)
  <2>1. Len(q) + 1 \notin B
    BY <1>1
  <2>2. Cardinality(B) \in Nat
    BY <1>2, FS_CardinalityType
  <2>3. v.inner => Cardinality(B \union {Len(q) + 1}) = Cardinality(B) + 1
    BY <1>2, <2>1, FS_AddElement
  <2>4. QED
    BY <2>2, <2>3
<1>6. i + s = Len(q) + 1 => Cardinality(B) = 0
  <2>1. i + s = Len(q) + 1 => B = {}
    BY <1>1
  <2>2. QED
    BY <2>1, FS_EmptySet
<1>7. QED
  BY <1>4, <1>5, <1>6 DEF Behind

(* A place reached from inside is noted in both.                           *)
LEMMA InnerNoted ==
  ASSUME NEW q \in Seq(Visits), NEW r \in Seq(MainCode), NEW a \in MainCode,
         Len(q) <= RingMax, InRing(q, r)
  PROVE /\ Len(Note(q, [at |-> a, inner |-> TRUE])) <= RingMax
        /\ InRing(Note(q, [at |-> a, inner |-> TRUE]), Note(r, a))
<1> DEFINE v == [at |-> a, inner |-> TRUE]
           n == Note(q, v)
           w == Note(r, a)
<1>1. v \in Visits /\ v.inner = TRUE /\ v.at = a
  BY DEF Visits
<1> HIDE DEF v
<1>2. n \in Seq(Visits) /\ w \in Seq(MainCode)
  BY <1>1, NoteType
<1>3. PICK s : Noting(q, v, n, s)
  BY <1>1, NoteParts
<1>4. PICK z : Noting(r, a, w, z)
  BY NoteParts
<1> HIDE DEF n, w
<1>5. /\ s \in {0, 1} /\ Len(n) = Len(q) + 1 - s /\ Len(n) <= RingMax
      /\ z \in {0, 1} /\ Len(w) = Len(r) + 1 - z
      /\ z = 1 => Len(r) >= RingMax
      /\ \A i \in 1 .. Len(w) : w[i] = IF i + z = Len(r) + 1 THEN a ELSE r[i + z]
      /\ \A i \in 1 .. Len(n) : n[i] = IF i + s = Len(q) + 1 THEN v ELSE q[i + s]
      /\ Len(q) \in Nat /\ Len(r) \in Nat /\ Len(n) \in Nat /\ Len(w) \in Nat
  BY <1>2, <1>3, <1>4 DEF Noting
<1>6. ASSUME NEW i \in DOMAIN n, n[i].inner
      PROVE Behind(n, i) <= Len(w) /\ w[Len(w) - Behind(n, i) + 1] = n[i].at
  <2>1. i \in 1 .. Len(n)
    BY <1>2
  <2>a. i \in Nat /\ i >= 1 /\ i <= Len(n)
    BY <1>5, <2>1
  <2>2. Behind(n, i) \in Nat /\ Behind(n, i) <= Len(n) - i + 1
    BY <1>2, <2>1, <2>a, BehindFinite
  <2>3. Behind(n, i) = (IF i + s = Len(q) + 1 THEN 0 ELSE Behind(q, i + s)) + 1
    BY <1>1, <1>2, <1>3, <2>1, BehindNote
  <2>4. CASE i + s = Len(q) + 1
    <3>1. Behind(n, i) = 1 /\ n[i] = v
      BY <1>5, <2>1, <2>3, <2>4
    <3>2. Len(w) >= 1
      BY <1>5, ConstAssumption
    <3>3. w[Len(w)] = a
      <4>1. Len(w) \in 1 .. Len(w) /\ Len(w) + z = Len(r) + 1
        BY <1>5, <3>2
      <4>2. QED
        BY <1>5, <4>1
    <3>4. Len(w) - 1 + 1 = Len(w)
      BY <1>5
    <3>5. QED
      BY <1>1, <3>1, <3>2, <3>3, <3>4
  <2>5. CASE i + s # Len(q) + 1
    <3>1. i + s \in 1 .. Len(q) /\ n[i] = q[i + s]
      BY <1>5, <2>1, <2>5
    <3>2. /\ Behind(q, i + s) <= Len(r)
          /\ r[Len(r) - Behind(q, i + s) + 1] = n[i].at
      BY <1>6, <3>1 DEF InRing
    <3>3. Behind(q, i + s) \in Nat /\ Behind(q, i + s) >= 1
      <4> DEFINE B == {j \in i + s .. Len(q) : q[j].inner}
      <4>1. IsFiniteSet(B) /\ Behind(q, i + s) \in Nat
        <5>1. i + s \in Nat
          BY <3>1
        <5>2. QED
          BY <5>1, BehindFinite
      <4>2. i + s \in B
        BY <1>6, <3>1
      <4>3. Cardinality(B) # 0
        BY <4>1, <4>2, FS_EmptySet
      <4>4. QED
        BY <4>1, <4>3 DEF Behind
    <3>4. Behind(n, i) = Behind(q, i + s) + 1
      BY <2>3, <2>5
    <3>5. Behind(n, i) <= Len(w)
      <4>1. Behind(n, i) <= RingMax
        <5>1. RingMax \in Nat /\ Len(n) \in Nat /\ Len(n) <= RingMax
          BY <1>5, ConstAssumption
        <5>2. QED
          BY <2>a, <2>2, <5>1
      <4>2. /\ z \in {0, 1} /\ Len(w) = Len(r) + 1 - z /\ (z = 1 => Len(r) >= RingMax)
            /\ Len(r) \in Nat /\ Len(w) \in Nat /\ RingMax \in Nat
        BY <1>5, ConstAssumption
      <4>3. CASE z = 0
        <5>1. Len(w) = Len(r) + 1
          BY <4>2, <4>3
        <5>2. QED
          BY <3>2, <3>3, <3>4, <4>2, <5>1
      <4>4. CASE z = 1
        <5>1. Len(w) = Len(r) /\ Len(r) >= RingMax
          BY <4>2, <4>4
        <5>2. QED
          BY <2>2, <4>1, <4>2, <5>1
      <4>5. QED
        BY <4>2, <4>3, <4>4
    <3>6. Len(w) - Behind(n, i) + 1 \in 1 .. Len(w)
          /\ Len(w) - Behind(n, i) + 1 + z = Len(r) - Behind(q, i + s) + 1
      <4>1. /\ z \in {0, 1} /\ Len(w) = Len(r) + 1 - z
            /\ Len(r) \in Nat /\ Len(w) \in Nat
        BY <1>5
      <4>2. Len(w) - Behind(n, i) + 1 \in 1 .. Len(w)
        BY <2>2, <3>3, <3>4, <3>5, <4>1
      <4>3. Len(w) - Behind(n, i) + 1 + z = Len(r) - Behind(q, i + s) + 1
        BY <2>2, <3>3, <3>4, <4>1
      <4>4. QED
        BY <4>2, <4>3
    <3>7. w[Len(w) - Behind(n, i) + 1] = r[Len(r) - Behind(q, i + s) + 1]
      <4>1. Len(r) - Behind(q, i + s) + 1 # Len(r) + 1
        BY <1>5, <3>3
      <4>2. \A m \in 1 .. Len(w) : m + z # Len(r) + 1 => w[m] = r[m + z]
        BY <1>5
      <4>3. Len(w) - Behind(n, i) + 1 + z # Len(r) + 1
        BY <3>6, <4>1
      <4>4. QED
        BY <3>6, <4>2, <4>3
    <3>8. QED
      BY <3>2, <3>5, <3>7
  <2>6. QED
    BY <2>4, <2>5
<1>7. QED
  BY <1>5, <1>6 DEF InRing, n, v, w

(* An entrance is noted in the trail only.                                 *)
LEMMA EntranceNoted ==
  ASSUME NEW q \in Seq(Visits), NEW r \in Seq(MainCode), NEW a \in MainCode,
         Len(q) <= RingMax, InRing(q, r)
  PROVE /\ Len(Note(q, [at |-> a, inner |-> FALSE])) <= RingMax
        /\ InRing(Note(q, [at |-> a, inner |-> FALSE]), r)
<1> DEFINE v == [at |-> a, inner |-> FALSE]
           n == Note(q, v)
<1>1. v \in Visits /\ v.inner = FALSE
  BY DEF Visits
<1> HIDE DEF v
<1>2. n \in Seq(Visits)
  BY <1>1, NoteType
<1>3. PICK s : Noting(q, v, n, s)
  BY <1>1, NoteParts
<1> HIDE DEF n
<1>4. /\ s \in {0, 1} /\ Len(n) = Len(q) + 1 - s /\ Len(n) <= RingMax
      /\ \A i \in 1 .. Len(n) : n[i] = IF i + s = Len(q) + 1 THEN v ELSE q[i + s]
      /\ Len(q) \in Nat /\ Len(n) \in Nat
  BY <1>2, <1>3 DEF Noting
<1>5. ASSUME NEW i \in DOMAIN n, n[i].inner
      PROVE Behind(n, i) <= Len(r) /\ r[Len(r) - Behind(n, i) + 1] = n[i].at
  <2>1. i \in 1 .. Len(n)
    BY <1>2
  <2>2. i + s # Len(q) + 1
    BY <1>1, <1>4, <1>5, <2>1
  <2>3. i + s \in 1 .. Len(q) /\ n[i] = q[i + s]
    BY <1>4, <2>1, <2>2
  <2>4. Behind(q, i + s) \in Nat
    <3>1. i + s \in Nat
      BY <2>3
    <3>2. QED
      BY <3>1, BehindFinite
  <2>5. Behind(n, i) = Behind(q, i + s)
    <3>1. Behind(n, i) =
            (IF i + s = Len(q) + 1 THEN 0 ELSE Behind(q, i + s))
              + (IF v.inner THEN 1 ELSE 0)
      BY <1>1, <1>2, <1>3, <2>1, BehindNote
    <3>2. QED
      BY <1>1, <2>2, <2>4, <3>1
  <2>6. QED
    BY <1>5, <2>3, <2>5 DEF InRing
<1>6. QED
  BY <1>4, <1>5 DEF InRing, n, v

-----------------------------------------------------------------------------
(* One thread and DLLs that do not call back: what the tracer follows.     *)

Pending == event[Main][1]

(* The loader runs to its own breakpoint, and no instruction of the image  *)
(* runs before the tracer has answered that.                               *)
Starting ==
  /\ boot # "started" => rip[Main] = Ntdll[1] /\ stack[Main] = <<>>
  /\ boot = "loading" => first_bp_seen = FALSE /\ Pending # "break"
  /\ boot = "ready" /\ Pending # "break" => first_bp_seen = TRUE
  /\ boot = "started" => first_bp_seen = TRUE

(* The thread is behind an INT3 only while the tracer is about to put it   *)
(* back: the breakpoint that is reported is one of the two it planted.     *)
Underneath ==
  /\ rip[Main] = Skid => Pending = "break"
  /\ Pending = "break" =>
       IF first_bp_seen
         THEN /\ rip[Main] = Skid
              /\ event[Main][2] \in MainCode \intersect {entry_bp, bp_addr}
         ELSE rip[Main] = Ntdll[1]

(* Only the outermost frame may return to a DLL.                           *)
Nested ==
  \A i \in 1 .. Len(stack[Main]) :
    stack[Main][i] \notin MainCode => i = Len(stack[Main])

(* The ring r has what the main thread reached from inside the image.      *)
Recorded(r) == Len(trail) <= RingMax /\ InRing(trail, r)

(* Until the entry breakpoint has fired nothing of the image has run.      *)
Waiting ==
  /\ Pending # "create" => entry_bp = Entry
  /\ boot = "started" => rip[Main] \in {Entry, Skid}
  /\ Recorded(ring)

(* From then on the tracer has a way back to every place where the thread  *)
(* runs, and what it reached is in the ring but the one it is told of.     *)
Following ==
  /\ boot = "started" /\ first_bp_seen = TRUE /\ entry_bp = Absent
  /\ Pending # "step" =>
       /\ rip[Main] \in MainCode => tf[Main] = TRUE \/ rip[Main] = bp_addr
       /\ rip[Main] \in DllCode =>
            /\ tf[Main] = FALSE
            /\ InMain(ReturnAddress) => bp_addr = ReturnAddress
       /\ Recorded(ring)
  /\ Pending = "step" =>
       Recorded(IF rip[Main] \in MainCode THEN Note(ring, rip[Main]) ELSE ring)

Known == entry_rva # Absent => IF tracing THEN Following ELSE Waiting

LInv == IInv /\ Starting /\ Underneath /\ Nested /\ Known

LEMMA LoneInit == Init => LInv
<1> SUFFICES ASSUME Init PROVE LInv
  OBVIOUS
<1>1. IInv
  BY InitIInv
<1>2. /\ rip[Main] = Ntdll[1] /\ stack[Main] = <<>> /\ Pending = "create"
      /\ boot = "loading" /\ first_bp_seen = FALSE /\ tracing = FALSE
      /\ Recorded(ring)
  BY ConstAssumption DEF Init, Pending, Recorded, InRing
<1>3. Ntdll[1] # Skid
  BY ConstAssumption
<1>4. Starting /\ Underneath /\ Nested /\ Known
  BY <1>2, <1>3 DEF Starting, Underneath, Nested, Known, Waiting
<1>5. QED
  BY <1>1, <1>4 DEF LInv

(* What an instruction changes, and where the thread was.                  *)
LEMMA Moves ==
  ASSUME TypeOK, NEW a, NEW frames, Arrive(Main, a, frames)
  PROVE /\ rip'[Main] = a /\ stack'[Main] = frames /\ tf'[Main] = FALSE
        /\ Pending' = IF tf[Main] THEN "step" ELSE Pending
        /\ trail' = IF a \in MainCode
                      THEN Note(trail, [at |-> a, inner |-> InImage(Main)])
                      ELSE trail
        /\ UNCHANGED <<entry_rva, bp_addr, entry_bp, tracing, first_bp_seen, ring>>
<1>1. /\ rip'[Main] = a /\ stack'[Main] = frames /\ tf'[Main] = FALSE
      /\ trail' = IF a \in MainCode
                    THEN Note(trail, [at |-> a, inner |-> InImage(Main)])
                    ELSE trail
      /\ UNCHANGED <<entry_rva, bp_addr, entry_bp, tracing, first_bp_seen, ring>>
  BY ConstAssumption DEF Arrive, TypeOK, tracer, plant, mode, log
<1>2. event'[Main] = IF tf[Main] THEN <<"step", a>> ELSE event[Main]
  BY ConstAssumption DEF Arrive, Raise, TypeOK
<1>3. QED
  BY <1>1, <1>2 DEF Pending

LEMMA Apart ==
  /\ Main \in Threads /\ Entry \in MainCode
  /\ Skid \notin Code /\ Skid \notin MainCode
  /\ Ntdll[1] \notin MainCode /\ Ntdll[1] # Skid
  /\ \A a \in DllCode : a \notin MainCode /\ a # Skid
  /\ \A w \in Wild : w \notin Code /\ w # Skid
<1>1. Skid \notin DllCode
  BY ConstAssumption DEF DllCode, Skid
<1>2. QED
  BY <1>1, Places, ConstAssumption DEF Code

(* An instruction of the image is stepped, if the entry is known.          *)
LEMMA FromImage ==
  ASSUME LInv, Running(Main), Ahead(Main),
         NEW a \in Anywhere \ {Skid}, NEW frames,
         Arrive(Main, a, frames), boot' = boot,
         \A i \in 1 .. Len(frames) : frames[i] \notin MainCode => i = Len(frames)
  PROVE Starting' /\ Underneath' /\ Nested' /\ Known'
<1> USE Apart DEF LInv, IInv
<1>0. TypeOK /\ Pending = "none"
  BY DEF Running, NoEvent, Pending
<1>1. rip[Main] \in MainCode /\ mem[rip[Main]] = "insn"
  BY DEF Ahead, InImage
<1>2. boot = "started" /\ first_bp_seen = TRUE
  BY <1>1 DEF Starting, TypeOK
<1>3. rip[Main] # entry_bp /\ rip[Main] # bp_addr
  BY <1>1 DEF BytesAccounted
<1>4. /\ rip'[Main] = a /\ stack'[Main] = frames
      /\ Pending' = IF tf[Main] THEN "step" ELSE "none"
      /\ trail' = IF a \in MainCode
                    THEN Note(trail, [at |-> a, inner |-> TRUE]) ELSE trail
      /\ UNCHANGED <<entry_rva, bp_addr, entry_bp, tracing, first_bp_seen, ring>>
  BY <1>0, <1>1, Moves DEF InImage
<1>5. Starting' /\ Underneath' /\ Nested'
  BY <1>0, <1>2, <1>4 DEF Starting, Underneath, Nested
<1>6. ASSUME entry_rva # Absent PROVE tracing /\ Following /\ tf[Main]
  <2>1. entry_rva # Absent /\ ~tracing => FALSE
    BY <1>0, <1>1, <1>2, <1>3 DEF Known, Waiting
  <2>2. QED
    BY <1>0, <1>1, <1>3, <1>6, <2>1 DEF Known, Following
<1>7. ASSUME entry_rva # Absent PROVE Following'
  <2>1. Recorded(ring) /\ trail \in Seq(Visits) /\ ring \in Seq(MainCode)
    BY <1>0, <1>6, <1>7 DEF Following, TypeOK
  <2>2. a \in MainCode => Recorded(Note(ring, a))'
    BY <1>4, <2>1, InnerNoted DEF Recorded
  <2>3. a \notin MainCode => Recorded(ring)'
    BY <1>4, <2>1 DEF Recorded
  <2>4. Recorded(IF a \in MainCode THEN Note(ring, a) ELSE ring)'
    BY <2>2, <2>3
  <2>5. Pending' = "step"
    BY <1>4, <1>6, <1>7
  <2>6. boot' = "started" /\ first_bp_seen' = TRUE /\ entry_bp' = Absent
    BY <1>2, <1>4, <1>6, <1>7 DEF Following
  <2>7. Recorded(IF rip[Main] \in MainCode THEN Note(ring, rip[Main]) ELSE ring)'
    BY <1>4, <2>4
  <2>8. QED
    BY <2>5, <2>6, <2>7 DEF Following
<1>8. Known'
  BY <1>4, <1>6, <1>7 DEF Known
<1>9. QED
  BY <1>5, <1>8

(* The return into a DLL is the last one.                                  *)
LEMMA Outermost ==
  ASSUME TypeOK, Nested, stack[Main] # <<>>, Head(stack[Main]) \notin MainCode
  PROVE Tail(stack[Main]) = <<>>
<1>1. stack[Main] \in Seq(Code)
  BY Apart DEF TypeOK
<1>2. 1 \in 1 .. Len(stack[Main]) /\ stack[Main][1] \notin MainCode
  BY <1>1
<1>3. Len(stack[Main]) = 1
  BY <1>2 DEF Nested
<1>4. Tail(stack[Main]) \in Seq(Code) /\ Len(Tail(stack[Main])) = 0
  BY <1>1, <1>3, HeadTailProperties
<1>5. QED
  BY <1>4, EmptySeq

(* System code runs unseen, and comes back where the breakpoint is.        *)
LEMMA FromDll ==
  ASSUME LInv, Running(Main), InDll(Main), boot' = boot,
         Ret(Main) \/ DllStep(Main)
  PROVE Starting' /\ Underneath' /\ Nested' /\ Known'
<1> USE Apart DEF LInv, IInv
<1>0. TypeOK /\ Pending = "none"
  BY DEF Running, NoEvent, Pending
<1>1. rip[Main] \in DllCode /\ rip[Main] \notin MainCode
  BY DEF InDll, TypeOK, DllCode
<1>2. PICK a, frames :
        /\ Arrive(Main, a, frames)
        /\ \/ /\ stack[Main] # <<>>
              /\ a = Head(stack[Main]) /\ frames = Tail(stack[Main])
           \/ tf[Main] /\ a = rip[Main] /\ frames = stack[Main]
  BY DEF Ret, DllStep
<1>3. /\ rip'[Main] = a /\ stack'[Main] = frames
      /\ Pending' = IF tf[Main] THEN "step" ELSE "none"
      /\ tf'[Main] = FALSE
      /\ trail' = IF a \in MainCode
                    THEN Note(trail, [at |-> a, inner |-> FALSE]) ELSE trail
      /\ UNCHANGED <<entry_rva, bp_addr, entry_bp, tracing, first_bp_seen, ring>>
  <2>1. InImage(Main) = FALSE
    BY <1>1 DEF InImage
  <2>2. QED
    BY <1>0, <1>2, <2>1, Moves
<1>4. stack[Main] \in Seq(Code)
  BY DEF TypeOK
<1>5. a \in Code
  BY <1>1, <1>2, <1>4 DEF Code
<1>6. Starting'
  BY <1>0, <1>2, <1>3 DEF Starting
<1>7. Underneath'
  BY <1>0, <1>3, <1>5 DEF Underneath
<1>8. Nested'
  <2>1. CASE stack[Main] # <<>> /\ frames = Tail(stack[Main])
    <3>1. /\ Len(frames) = Len(stack[Main]) - 1
          /\ \A i \in 1 .. Len(frames) : frames[i] = stack[Main][i + 1]
      BY <1>4, <2>1, HeadTailProperties
    <3>2. QED
      BY <1>3, <1>4, <3>1 DEF Nested
  <2>2. CASE frames = stack[Main]
    BY <1>3, <2>2 DEF Nested
  <2>3. QED
    BY <1>2, <2>1, <2>2
<1>9. Known'
  <2> SUFFICES ASSUME entry_rva # Absent PROVE Known'
    BY <1>3 DEF Known
  <2>1. CASE ~tracing
    <3>1. boot # "started" /\ entry_bp = Entry
      BY <1>0, <1>1, <2>1 DEF Known, Waiting
    <3>2. stack[Main] = <<>> /\ tf[Main] # TRUE
      BY <3>1, Places DEF Starting, Early, Watched
    <3>3. QED
      BY <1>2, <3>2
  <2>2. CASE tracing
    <3>1. Following /\ tf[Main] = FALSE /\ Recorded(ring)
      BY <1>0, <1>1, <2>2 DEF Known, Following
    <3>2. /\ stack[Main] # <<>>
          /\ a = Head(stack[Main]) /\ frames = Tail(stack[Main])
      BY <1>2, <3>1
    <3>3. a \in MainCode => bp_addr = a
      BY <1>0, <1>1, <3>1, <3>2 DEF Following, ReturnAddress, InMain
    <3>4. a \in DllCode => frames = <<>>
      BY <1>0, <3>2, Outermost
    <3>5. a \in DllCode => ~InMain(ReturnAddress')
      BY <1>3, <3>4, Places DEF ReturnAddress, InMain
    <3>6. Recorded(ring)'
      <4>1. trail \in Seq(Visits) /\ ring \in Seq(MainCode)
        BY <1>0 DEF TypeOK
      <4>2. QED
        BY <1>3, <3>1, <4>1, EntranceNoted DEF Recorded
    <3>7. Pending' = "none"
      BY <1>3, <3>1
    <3>8. Following'
      BY <1>3, <3>1, <3>3, <3>5, <3>6, <3>7 DEF Following, InMain
    <3>9. QED
      BY <1>3, <2>2, <3>8 DEF Known
  <2>3. QED
    BY <2>1, <2>2
<1>10. QED
  BY <1>6, <1>7, <1>8, <1>9

LEMMA LoneProgram ==
  ASSUME LInv, Threads = {Main}, Reentrant = FALSE, Program
  PROVE Starting' /\ Underneath' /\ Nested' /\ Known'
<1> USE Apart DEF LInv, IInv
<1>0. TypeOK
  OBVIOUS
<1>a. ASSUME Running(Main) PROVE Pending = "none" /\ rip[Main] # Skid
  BY <1>a DEF Running, NoEvent, Pending, Underneath
<1>b. /\ MainCode \subseteq Anywhere \ {Skid}
      /\ Callable \subseteq Anywhere \ {Skid}
  BY <1>0 DEF Callable, Anywhere, Code, DllCode, TypeOK
<1>c. stack[Main] \in Seq(Code)
  BY <1>0 DEF TypeOK
<1>1. CASE Jump(Main)
  <2>1. PICK a \in Callable : Arrive(Main, a, stack[Main])
    BY <1>1 DEF Jump
  <2>2. QED
    BY <1>1, <1>b, <2>1, FromImage DEF Jump, Nested
<1>2. CASE Call(Main)
  <2>1. PICK a \in Callable : Arrive(Main, a, <<rip[Main] + 1>> \o stack[Main])
    BY <1>2 DEF Call
  <2>2. rip[Main] + 1 \in MainCode
    BY <1>2, ConstAssumption DEF Call, Ahead, InImage, MainCode
  <2> DEFINE frames == <<rip[Main] + 1>> \o stack[Main]
  <2>3. /\ Len(frames) = Len(stack[Main]) + 1 /\ frames[1] = rip[Main] + 1
        /\ \A i \in 2 .. Len(frames) : frames[i] = stack[Main][i - 1]
    BY <1>c, <2>2
  <2>4. \A i \in 1 .. Len(frames) : frames[i] \notin MainCode => i = Len(frames)
    BY <1>c, <2>2, <2>3 DEF Nested
  <2>5. QED
    BY <1>2, <1>b, <2>1, <2>4, FromImage DEF Call
<1>3. CASE Ret(Main)
  <2>1. CASE InDll(Main)
    BY <1>3, <2>1, FromDll DEF Ret
  <2>2. CASE Ahead(Main)
    <3> DEFINE frames == Tail(stack[Main])
    <3>1. /\ Len(frames) = Len(stack[Main]) - 1
          /\ \A i \in 1 .. Len(frames) : frames[i] = stack[Main][i + 1]
      BY <1>3, <1>c, HeadTailProperties DEF Ret
    <3>2. \A i \in 1 .. Len(frames) : frames[i] \notin MainCode => i = Len(frames)
      BY <1>c, <3>1 DEF Nested
    <3>3. Head(stack[Main]) \in Anywhere \ {Skid}
      BY <1>3, <1>c DEF Ret, Anywhere
    <3>4. QED
      BY <1>3, <2>2, <3>2, <3>3, FromImage DEF Ret
  <2>3. QED
    BY <1>3, <2>1, <2>2 DEF Ret
<1>4. CASE DllStep(Main)
  BY <1>4, FromDll DEF DllStep
<1>5. CASE StartMain
  <2>1. /\ Running(Main) /\ Pending = "none" /\ boot = "ready"
        /\ boot' = "started" /\ Arrive(Main, Entry, <<rip[Main]>>)
    BY <1>5, <1>a DEF StartMain
  <2>2. first_bp_seen = TRUE /\ ~InImage(Main)
    BY <2>1 DEF Starting, InImage
  <2>a. InImage(Main) = FALSE
    BY <2>2 DEF InImage
  <2>3. /\ rip'[Main] = Entry /\ stack'[Main] = <<rip[Main]>>
        /\ Pending' = IF tf[Main] THEN "step" ELSE "none"
        /\ trail' = Note(trail, [at |-> Entry, inner |-> FALSE])
        /\ UNCHANGED <<entry_rva, bp_addr, entry_bp, tracing, first_bp_seen, ring>>
    BY <1>0, <2>1, <2>a, Moves
  <2>4. Starting' /\ Underneath' /\ Nested'
    BY <2>1, <2>2, <2>3 DEF Starting, Underneath, Nested
  <2>5. ASSUME entry_rva # Absent PROVE ~tracing /\ Waiting /\ entry_bp = Entry
    BY <2>1, <2>5 DEF Known, Following, Waiting, Recorded
  <2>6. ASSUME entry_rva # Absent PROVE Recorded(ring)'
    <3>1. trail \in Seq(Visits) /\ ring \in Seq(MainCode)
      BY <1>0 DEF TypeOK
    <3>2. QED
      BY <2>3, <2>5, <2>6, <3>1, EntranceNoted DEF Recorded, Waiting
  <2>7. Known'
    BY <2>3, <2>5, <2>6 DEF Known, Waiting
  <2>8. QED
    BY <2>4, <2>7
<1>6. CASE HitInt3(Main)
  <2>1. /\ Running(Main) /\ Pending = "none" /\ rip[Main] \in MainCode
        /\ mem[rip[Main]] = "int3"
        /\ event'[Main] = <<"break", rip[Main]>> /\ rip'[Main] = Skid
        /\ UNCHANGED <<stack, tf, boot, tracer, trail>>
    BY <1>0, <1>6, <1>a DEF HitInt3, InImage, Raise, TypeOK
  <2>2. boot = "started" /\ first_bp_seen = TRUE
    BY <1>0, <2>1 DEF Starting, TypeOK
  <2>3. rip[Main] \in {entry_bp, bp_addr}
    BY <2>1 DEF BytesAccounted
  <2>4. Pending' = "break"
    BY <2>1 DEF Pending
  <2> USE DEF tracer, plant, mode, log
  <2>5. Starting' /\ Underneath' /\ Nested'
    BY <2>1, <2>2, <2>3, <2>4 DEF Starting, Underneath, Nested
  <2>6. Skid \notin DllCode
    OBVIOUS
  <2>7. ring' = ring /\ trail' = trail /\ entry_rva' = entry_rva /\ tracing' = tracing
    BY <2>1
  <2>8. Known'
    BY <2>1, <2>4, <2>6, <2>7 DEF Known, Following, Waiting, Recorded
  <2>9. QED
    BY <2>5, <2>8
<1>7. ASSUME Running(Main),
             NEW k \in {"load", "benign", "fault", "exit"}, NEW a, Raise(Main, k, a),
             UNCHANGED <<rip, stack, tf, boot, tracer, trail>>
      PROVE Starting' /\ Underneath' /\ Nested' /\ Known'
  <2>1. Pending = "none" /\ rip[Main] # Skid /\ Pending' = k
    BY <1>0, <1>7, <1>a DEF Raise, Pending, TypeOK
  <2> USE DEF tracer, plant, mode, log
  <2>2. Starting' /\ Underneath' /\ Nested'
    BY <1>7, <2>1 DEF Starting, Underneath, Nested
  <2>3. ReturnAddress' = ReturnAddress
    BY <1>7 DEF ReturnAddress
  <2>4. Known'
    BY <1>7, <2>1, <2>3 DEF Known, Following, Waiting, Recorded
  <2>5. QED
    BY <2>2, <2>4
<1>8. CASE LoadDll
  BY <1>7, <1>8 DEF LoadDll
<1>9. CASE Benign(Main) \/ Fault(Main) \/ Exit(Main)
  BY <1>7, <1>9 DEF Benign, Fault, Exit
<1>10. CASE LoaderBreak
  <2>1. /\ Running(Main) /\ Pending = "none" /\ rip[Main] # Skid
        /\ boot = "loading" /\ boot' = "ready"
        /\ UNCHANGED <<rip, stack, tf, mem, tracer, trail>>
    BY <1>10, <1>a DEF LoaderBreak
  <2>2. Pending' = "break"
    BY <1>0, <1>10 DEF LoaderBreak, Raise, Pending, TypeOK
  <2>3. first_bp_seen = FALSE /\ rip[Main] = Ntdll[1]
    BY <2>1 DEF Starting
  <2> USE DEF tracer, plant, mode, log
  <2>4. Starting' /\ Underneath' /\ Nested'
    BY <2>1, <2>2, <2>3 DEF Starting, Underneath, Nested
  <2>5. Known'
    BY <2>1, <2>2, <2>3 DEF Known, Following, Waiting, Recorded
  <2>6. QED
    BY <2>4, <2>5
<1>11. ~Callback(Main) /\ ~Unwind(Main)
  BY DEF Callback, Unwind
<1>12. QED
  BY <1>1, <1>2, <1>3, <1>4, <1>5, <1>6, <1>8, <1>9, <1>10, <1>11 DEF Program

(* The loop has ended, or no step is taken.                                *)
LEMMA LoneStill ==
  ASSUME LInv,
         UNCHANGED <<rip, stack, tf, event, boot, entry_rva, bp_addr, entry_bp>>,
         UNCHANGED <<tracing, first_bp_seen, ring, trail>>
  PROVE Starting' /\ Underneath' /\ Nested' /\ Known'
<1>1. Pending' = Pending /\ ReturnAddress' = ReturnAddress
  BY DEF Pending, ReturnAddress
<1>2. Starting' /\ Underneath' /\ Nested'
  BY <1>1 DEF LInv, Starting, Underneath, Nested
<1>3. Known'
  BY <1>1 DEF LInv, Known, Following, Waiting, Recorded
<1>4. QED
  BY <1>2, <1>3

(* No step is reported before the entry.                                   *)
LEMMA StepsFollowed ==
  ASSUME LInv, Pending = "step", entry_rva # Absent
  PROVE tracing /\ Following
<1>1. Watched(Main)
  BY DEF Watched, Pending
<1>2. entry_bp = Absent
  BY <1>1, Apart DEF LInv, IInv, Early
<1>3. QED
  BY <1>2, Places, Apart DEF LInv, Known, Waiting

LEMMA LoneHandle ==
  ASSUME LInv, Handle(Main)
  PROVE Starting' /\ Underneath' /\ Nested' /\ Known'
<1> USE Apart DEF LInv, IInv, cpu, plant, mode, log, outside
<1>0. TypeOK
  OBVIOUS
<1>a. ASSUME Continue(Main) PROVE Pending' = "none"
  BY <1>0, <1>a DEF Continue, Pending, NoEvent, TypeOK
<1>b. stack' = stack => ReturnAddress' = ReturnAddress
  BY DEF ReturnAddress
<1>1. CASE CreateProcess(Main)
  <2>1. /\ Pending = "create" /\ Pending' = "none"
        /\ entry_bp' = entry_rva
        /\ UNCHANGED <<rip, stack, boot, entry_rva, tracing, first_bp_seen, ring, trail>>
    BY <1>1, <1>a DEF CreateProcess, Reported, Pending
  <2>2. first_bp_seen = FALSE
    BY <2>1 DEF Start, Pending
  <2>3. Starting' /\ Underneath' /\ Nested'
    BY <2>1, <2>2 DEF Starting, Underneath, Nested
  <2>4. entry_rva # Absent => ~tracing /\ Waiting /\ entry_rva = Entry
    BY <1>0, <2>2 DEF Known, Following, TypeOK
  <2>5. Known'
    BY <2>1, <2>4 DEF Known, Waiting, Recorded
  <2>6. QED
    BY <2>3, <2>5
<1>2. CASE LoadDllEvent(Main) \/ PassCode(Main)
  <2>1. /\ Pending \in {"load", "benign"} /\ Pending' = "none"
        /\ UNCHANGED <<rip, stack, tf, boot, bp_addr, entry_bp, entry_rva>>
        /\ UNCHANGED <<tracing, first_bp_seen, ring, trail>>
    BY <1>2, <1>a DEF LoadDllEvent, PassCode, Reported, Pending
  <2>2. Starting' /\ Underneath' /\ Nested'
    BY <2>1 DEF Starting, Underneath, Nested
  <2>3. Known'
    BY <2>1, <1>b DEF Known, Following, Waiting, Recorded
  <2>4. QED
    BY <2>2, <2>3
<1>3. CASE ExitProcess(Main) \/ WildBranch(Main) \/ RealException(Main)
  BY <1>3, LoneStill DEF ExitProcess, WildBranch, RealException, Stop
<1>4. CASE FirstBp(Main)
  <2>1. /\ Pending = "break" /\ Pending' = "none"
        /\ first_bp_seen = FALSE /\ first_bp_seen' = TRUE
        /\ entry_bp # Absent => tracing' = tracing
        /\ UNCHANGED <<rip, stack, boot, entry_bp, entry_rva, ring, trail>>
    BY <1>0, <1>4, <1>a DEF FirstBp, Reported, Pending, TypeOK
  <2>2. rip[Main] = Ntdll[1]
    BY <2>1 DEF Underneath
  <2>3. Starting' /\ Underneath' /\ Nested'
    BY <2>1, <2>2 DEF Starting, Underneath, Nested
  <2>4. entry_rva # Absent => ~tracing /\ Waiting /\ entry_bp = Entry
    BY <2>1 DEF Known, Following, Waiting, Recorded
  <2>5. Known'
    BY <2>1, <2>4, Places DEF Known, Waiting, Recorded
  <2>6. QED
    BY <2>3, <2>5
<1>c. ASSUME Pending = "break", first_bp_seen = TRUE
      PROVE /\ event[Main][2] \in MainCode \intersect {entry_bp, bp_addr}
            /\ boot = "started"
  BY <1>0, <1>c DEF Underneath, Starting, TypeOK
<1>5. CASE EntryBp(Main)
  <2>1. /\ Pending = "break" /\ Pending' = "none" /\ first_bp_seen = TRUE
        /\ entry_bp # Absent /\ entry_bp' = Absent /\ tracing' = TRUE
        /\ rip'[Main] = event[Main][2] /\ tf'[Main] = TRUE
        /\ UNCHANGED <<stack, boot, entry_rva, first_bp_seen, ring, trail>>
    BY <1>0, <1>5, <1>a
       DEF EntryBp, Reported, Pending, Addr, Rewind, SetTF, TypeOK
  <2>2. rip'[Main] \in MainCode /\ boot = "started"
    BY <1>c, <2>1
  <2>3. Starting' /\ Underneath' /\ Nested'
    BY <2>1, <2>2 DEF Starting, Underneath, Nested
  <2>4. entry_rva # Absent => Recorded(ring)
    BY <2>1 DEF Known, Following, Waiting, Recorded
  <2>5. Known'
    BY <2>1, <2>2, <2>4 DEF Known, Following, Recorded
  <2>6. QED
    BY <2>3, <2>5
<1>6. CASE OneShotBp(Main)
  <2>1. /\ Pending = "break" /\ Pending' = "none" /\ first_bp_seen = TRUE
        /\ bp_addr # Absent
        /\ rip'[Main] = event[Main][2] /\ (tracing => tf'[Main] = TRUE)
        /\ UNCHANGED <<stack, boot, entry_bp, entry_rva, tracing, first_bp_seen>>
        /\ UNCHANGED <<ring, trail>>
    BY <1>0, <1>6, <1>a
       DEF OneShotBp, Reported, Pending, Addr, Rewind, SetTF, TypeOK
  <2>2. rip'[Main] \in MainCode /\ boot = "started"
    BY <1>c, <2>1
  <2>3. Starting' /\ Underneath' /\ Nested'
    BY <2>1, <2>2 DEF Starting, Underneath, Nested
  <2>4. entry_rva # Absent => tracing /\ Following
    BY <2>1, Places DEF Known, Waiting, Early
  <2>5. Known'
    BY <2>1, <2>2, <2>4 DEF Known, Following, Recorded
  <2>6. QED
    BY <2>3, <2>5
<1>7. ~ForeignBp(Main)
  BY <1>c DEF ForeignBp, Reported, Pending, Addr
<1>8. CASE StepInImage(Main)
  <2>1. /\ Pending = "step" /\ Pending' = "none"
        /\ rip[Main] \in MainCode /\ ring' = Note(ring, rip[Main])
        /\ tf'[Main] = TRUE
        /\ UNCHANGED <<rip, stack, boot, entry_bp, entry_rva, tracing>>
        /\ UNCHANGED <<first_bp_seen, trail>>
    BY <1>0, <1>8, <1>a
       DEF StepInImage, Reported, Pending, InMain, SetTF, TypeOK
  <2>2. Starting' /\ Underneath' /\ Nested'
    BY <2>1 DEF Starting, Underneath, Nested
  <2>3. Known'
    BY <2>1, StepsFollowed DEF Known, Following, Recorded
  <2>4. QED
    BY <2>2, <2>3
<1>9. CASE StepOver(Main) \/ RunFree(Main)
  <2>1. /\ Pending = "step" /\ Pending' = "none"
        /\ rip[Main] \notin MainCode /\ tf'[Main] = FALSE
        /\ InMain(ReturnAddress) => bp_addr' = ReturnAddress
        /\ UNCHANGED <<rip, stack, boot, entry_bp, entry_rva, tracing>>
        /\ UNCHANGED <<first_bp_seen, ring, trail>>
    BY <1>0, <1>9, <1>a
       DEF StepOver, RunFree, Reported, Pending, InMain, SetTF, ArmBp, TypeOK
  <2>2. Starting' /\ Underneath' /\ Nested'
    BY <2>1 DEF Starting, Underneath, Nested
  <2>3. Known'
    BY <1>b, <2>1, StepsFollowed DEF Known, Following, Recorded
  <2>4. QED
    BY <2>2, <2>3
<1>10. QED
  BY <1>1, <1>2, <1>3, <1>4, <1>5, <1>6, <1>7, <1>8, <1>9 DEF Handle

LEMMA LoneStep ==
  ASSUME Threads = {Main}, Reentrant = FALSE, LInv, [Next]_vars
  PROVE LInv'
<1>1. IInv'
  BY IInvStep DEF LInv
<1>2. CASE Timeout \/ UNCHANGED vars
  BY <1>1, <1>2, LoneStill
     DEF Timeout, Stop, vars, debuggee, tracer, cpu, plant, mode, log,
         outside, LInv
<1>3. QED
  BY <1>1, <1>2, LoneProgram, LoneHandle DEF Next, LInv

LEMMA LoneInvariant ==
  ASSUME Threads = {Main}, Reentrant = FALSE
  PROVE Spec => []LInv
<1>1. LInv /\ [Next]_vars => LInv'
  BY LoneStep
<1>2. QED
  BY <1>1, LoneInit, PTL DEF Spec

(* With one thread and DLLs that do not call back, no instruction of the   *)
(* program is skipped: the thread is never left behind an INT3.            *)
THEOREM Unnoticed ==
  ASSUME Threads = {Main}, Reentrant = FALSE
  PROVE Spec => []Transparent
<1>1. LInv => Transparent
  BY DEF LInv, Underneath, Transparent, Pending
<1>2. QED
  BY <1>1, LoneInvariant, PTL

(* ... the tracer that knows the entry keeps a way back to the thread ...  *)
THEOREM Followed ==
  ASSUME Threads = {Main}, Reentrant = FALSE
  PROVE Spec => []NeverLost
<1>1. LInv => NeverLost
  <2> SUFFICES ASSUME LInv, entry_rva # Absent, tracing,
                      event[Main] = NoEvent
               PROVE /\ InImage(Main) => tf[Main] \/ rip[Main] = bp_addr
                     /\ InDll(Main) /\ InMain(ReturnAddress) =>
                          tf[Main] \/ bp_addr = ReturnAddress
    BY DEF NeverLost
  <2>1. Following /\ Pending # "step"
    BY DEF LInv, Known, Pending, NoEvent
  <2>2. InDll(Main) => rip[Main] \in DllCode
    BY DEF LInv, IInv, TypeOK, InDll, DllCode
  <2>3. QED
    BY <2>1, <2>2 DEF Following, InImage
<1>2. QED
  BY <1>1, LoneInvariant, PTL

(* ... and its ring has, in order, every instruction that was reached from *)
(* inside the image; the ones the image was entered at it does not have.   *)
THEOREM RingHasInner ==
  ASSUME Threads = {Main}, Reentrant = FALSE
  PROVE Spec => []RingFaithful
<1>1. LInv => RingFaithful
  BY DEF LInv, Known, Following, Waiting, Recorded, Pending, RingFaithful
<1>2. QED
  BY <1>1, LoneInvariant, PTL

-----------------------------------------------------------------------------
(* A bad call.                                                             *)

Low(a) == \A m \in modules : a < m[1]

(* A wild address below the modules is only where a step was reported.     *)
Caught ==
  /\ entry_rva # Absent /\ rip[Main] \in Wild /\ Low(rip[Main]) =>
       Pending = "step"
  /\ verdict = "fault" => Pending = "fault"

LEMMA EntryKept == [Next]_vars => entry_rva' = entry_rva
  BY DEF Next, Program, Jump, Call, Ret, DllStep, StartMain, Arrive, tracer,
         LoadDll, LoaderBreak, HitInt3, Callback, Unwind, Benign, Fault, Exit,
         Handle, outside, CreateProcess, LoadDllEvent, ExitProcess, FirstBp,
         EntryBp, OneShotBp, ForeignBp, StepInImage, WildBranch, StepOver,
         RunFree, PassCode, RealException, Timeout, vars, debuggee

LEMMA CaughtStep ==
  ASSUME Threads = {Main}, Reentrant = FALSE,
         LInv, Caught, [Next]_vars
  PROVE Caught'
<1> USE Apart DEF LInv, IInv
<1>0. TypeOK
  OBVIOUS
<1>1. entry_rva' = entry_rva
  BY EntryKept
<1>2. modules \subseteq modules'
  BY DEF Next, Program, Jump, Call, Ret, DllStep, StartMain, Arrive, tracer,
         LoadDll, LoaderBreak, HitInt3, Callback, Unwind, Benign, Fault, Exit,
         Handle, log, CreateProcess, LoadDllEvent, ExitProcess, FirstBp,
         EntryBp, OneShotBp, ForeignBp, StepInImage, WildBranch, StepOver,
         RunFree, PassCode, RealException, Timeout, vars, debuggee
<1>b. \A a : Low(a)' => Low(a)
  BY <1>2 DEF Low
<1> DEFINE Fine ==
      /\ entry_rva # Absent /\ rip'[Main] \in Wild /\ Low(rip'[Main]) =>
           Pending' = "step"
      /\ verdict' = "fault" => Pending' = "fault"
<1> SUFFICES Fine
  BY <1>1, <1>b DEF Caught, Low
<1>a. ASSUME Running(Main) PROVE Pending = "none"
  BY <1>a DEF Running, NoEvent, Pending
<1>3. ASSUME Running(Main), NEW a, NEW frames, Arrive(Main, a, frames),
             a \in Wild => Ahead(Main)
      PROVE Fine
  <2>1. /\ rip'[Main] = a /\ Pending' = IF tf[Main] THEN "step" ELSE "none"
        /\ verdict' = "none"
    BY <1>0, <1>3, <1>a, Moves DEF Arrive, tracer, Running
  <2>2. ASSUME entry_rva # Absent, a \in Wild PROVE tf[Main]
    <3>1. rip[Main] \in MainCode /\ mem[rip[Main]] = "insn"
      BY <1>3, <2>2 DEF Ahead, InImage
    <3>2. boot = "started" /\ rip[Main] # entry_bp /\ rip[Main] # bp_addr
      BY <1>0, <3>1 DEF Starting, BytesAccounted
    <3>3. tracing
      BY <2>2, <3>1, <3>2, <1>3, <1>a DEF Known, Waiting
    <3>4. QED
      BY <1>3, <1>a, <2>2, <3>1, <3>2, <3>3 DEF Known, Following
  <2>3. QED
    BY <2>1, <2>2
<1>4. CASE Program
  <2>1. CASE Jump(Main) \/ Call(Main)
    BY <1>3, <2>1 DEF Jump, Call
  <2>2. CASE Ret(Main)
    <3>1. Head(stack[Main]) \notin Wild
      BY <1>0, <2>2 DEF Ret, TypeOK
    <3>2. QED
      BY <1>3, <2>2, <3>1 DEF Ret
  <2>3. CASE DllStep(Main)
    <3>1. rip[Main] \notin Wild
      BY <1>0, <2>3 DEF DllStep, InDll, TypeOK, DllCode, Code
    <3>2. QED
      BY <1>3, <2>3, <3>1 DEF DllStep
  <2>4. CASE StartMain
    <3>1. Entry \notin Wild
      BY DEF Code
    <3>2. QED
      BY <1>3, <2>4, <3>1 DEF StartMain
  <2>5. CASE \/ LoadDll \/ LoaderBreak
             \/ HitInt3(Main) \/ Benign(Main) \/ Fault(Main) \/ Exit(Main)
    <3>1. Running(Main) /\ verdict' = "none"
      BY <2>5 DEF LoadDll, LoaderBreak, HitInt3, Benign, Fault, Exit, tracer, Running
    <3>2. rip' = rip \/ rip'[Main] = Skid
      BY <1>0, <2>5 DEF LoadDll, LoaderBreak, HitInt3, Benign, Fault, Exit, TypeOK
    <3>3. entry_rva # Absent /\ rip'[Main] \in Wild => ~Low(rip'[Main])
      BY <1>a, <3>1, <3>2 DEF Caught
    <3>4. QED
      BY <3>1, <3>3
  <2>6. ~Callback(Main) /\ ~Unwind(Main)
    BY DEF Callback, Unwind
  <2>7. QED
    BY <1>4, <2>1, <2>2, <2>3, <2>4, <2>5, <2>6 DEF Program
<1> USE DEF cpu, plant, mode, log, outside
<1>5. CASE \/ CreateProcess(Main) \/ LoadDllEvent(Main) \/ FirstBp(Main)
           \/ PassCode(Main) \/ ForeignBp(Main)
  <2>1. rip' = rip /\ Pending # "step" /\ verdict' = "none"
    BY <1>5 DEF CreateProcess, LoadDllEvent, FirstBp, PassCode, ForeignBp,
                Reported, Pending
  <2>2. QED
    BY <2>1 DEF Caught
<1>6. CASE EntryBp(Main) \/ OneShotBp(Main)
  <2>1. /\ Pending = "break" /\ first_bp_seen = TRUE
        /\ rip'[Main] = event[Main][2] /\ verdict' = "none"
    BY <1>0, <1>6 DEF EntryBp, OneShotBp, Reported, Pending, Addr, Rewind, TypeOK
  <2>2. rip'[Main] \in MainCode
    BY <2>1 DEF Underneath
  <2>3. QED
    BY <2>1, <2>2 DEF Code
<1>7. CASE StepInImage(Main) \/ StepOver(Main) \/ RunFree(Main)
  <2>1. rip' = rip /\ verdict' = "none"
    BY <1>7 DEF StepInImage, StepOver, RunFree, Reported
  <2>2. rip[Main] \notin Wild \/ ~Low(rip[Main])
    <3>1. InMain(rip[Main]) => rip[Main] \notin Wild
      BY DEF InMain, Code
    <3>2. ASSUME rip[Main] \in Wild, NEW d \in modules, d[1] <= rip[Main]
          PROVE ~Low(rip[Main])
      <4>1. rip[Main] \in Nat /\ d[1] \in Nat
        BY <1>0, <3>2, ConstAssumption DEF TypeOK
      <4>2. QED
        BY <3>2, <4>1 DEF Low
    <3>3. QED
      BY <1>7, <3>1, <3>2 DEF StepInImage, StepOver, RunFree, InSomeModule
  <2>3. QED
    BY <2>1, <2>2
<1>8. CASE \/ ExitProcess(Main) \/ WildBranch(Main) \/ RealException(Main)
           \/ Timeout \/ UNCHANGED vars
  <2>1. UNCHANGED <<rip, event>> /\ (verdict' = "fault" => Pending = "fault")
    BY <1>8 DEF ExitProcess, WildBranch, RealException, Timeout, Stop, Reported,
                Pending, vars, debuggee, tracer, Caught
  <2>2. QED
    BY <2>1 DEF Caught, Pending
<1>9. QED
  BY <1>4, <1>5, <1>6, <1>7, <1>8 DEF Next, Handle

(* With one thread and DLLs that do not call back, a bad call below every  *)
(* module is reported before it faults if the entry is known, and so a     *)
(* fault in unmapped memory is only above the base of some module.         *)
THEOREM LowCallReported ==
  ASSUME Threads = {Main}, Reentrant = FALSE
  PROVE Spec => []LowCallCaught
<1>1. Init => Caught
  <2>1. Ntdll[1] \notin Wild
    BY Apart, Places DEF Code
  <2>2. QED
    BY <2>1, Apart DEF Init, Caught
<1>2. LInv /\ Caught /\ [Next]_vars => Caught'
  BY CaughtStep
<1>3. LInv /\ Caught => LowCallCaught
  <2> SUFFICES ASSUME LInv, Caught, entry_rva # Absent, verdict = "fault",
                      rip[Main] \in Wild
               PROVE \E m \in modules : m[1] <= rip[Main]
    BY DEF LowCallCaught
  <2>1. ~Low(rip[Main])
    BY DEF Caught
  <2>2. PICK m \in modules : ~(rip[Main] < m[1])
    BY <2>1 DEF Low
  <2>3. rip[Main] \in Nat /\ m[1] \in Nat
    BY ConstAssumption DEF LInv, IInv, TypeOK
  <2>4. QED
    BY <2>2, <2>3
<1>4. QED
  BY <1>1, <1>2, <1>3, LoneInvariant, PTL DEF Spec
=============================================================================
