---------------------------- MODULE CritSecShim ----------------------------
(***************************************************************************)
(* The critical-section wrappers that w2kshim64.dll exports to a           *)
(* translated program (w2kseh64.py 557-756, placed by x86x64/shim/         *)
(* builder.py 156-170 and 327-348).  A guest object is 0x18 bytes and a    *)
(* host object 0x28, so the wrappers keep a table of MaxSlots slots, each  *)
(* a guest address beside a host CRITICAL_SECTION, and scan it linearly.   *)
(*                                                                         *)
(* The table is plain memory: every compare and every store below is a     *)
(* step of its own, and the steps of the threads interleave.  The host     *)
(* calls are atomic, as kernel32 makes them.                               *)
(*                                                                         *)
(* The callers keep the Win32 rules: a section is initialised once before  *)
(* it is used, left only by the thread that entered it, and deleted when   *)
(* nobody uses it.  Two further rules, which Win32 does not ask for, are   *)
(* switched by constants: SerialInit (calls of InitializeCriticalSection   *)
(* do not overlap) and WithinCapacity (no more than MaxSlots sections      *)
(* exist at a time).                                                       *)
(***************************************************************************)
EXTENDS Naturals, FiniteSets

CONSTANTS
  Threads, Guests,
  Free,            \* key of an empty slot: the 0 of the zeroed .data section
  Nobody,          \* owner of a host section that nobody is in
  MaxSlots,        \* CS_MAX_SLOTS
  MaxDepth,        \* bound: how deep one thread nests its Enters of a section
  SerialInit, WithinCapacity

ASSUME ConstAssumption ==
  /\ IsFiniteSet(Guests)
  /\ Free \notin Guests
  /\ Nobody \notin Threads
  /\ MaxSlots \in Nat \ {0}
  /\ MaxDepth \in Nat \ {0}
  /\ SerialInit \in BOOLEAN
  /\ WithinCapacity \in BOOLEAN

VARIABLES
  key,      \* key[s]: the guest address in slot s, or Free
  owner,    \* owner[s], depth[s]: the host CRITICAL_SECTION in slot s
  depth,
  hostInit, \* hostInit[s]: the host section is initialised
  pc,       \* the instruction each thread is at, "idle" outside the wrappers
  arg,      \* arg[t]: rcx, the section t passed to the wrapper it is in
  idx,      \* idx[t]: rsi, the slot t's scan has reached
  life,     \* life[g]: what the callers know of g
  held,     \* held[<<t, g>>]: Enters of g by t that returned and were not left
  seen,     \* history: the guest addresses t's Init scan has gone past
  others    \* history: the sections that existed when t called Init

vars == <<key, owner, depth, hostInit, pc, arg, idx, life, held, seen, others>>
table == <<key, owner, depth, hostInit>>
history == <<seen, others>>

Slots == 1 .. MaxSlots
Uses == Threads \X Guests
Registered == {g \in Guests : life[g] # "dead"}

InitPCs == {"init_scan", "init_test", "init_empty", "init_found"}
ScanPCs == {"enter_scan", "leave_scan", "del_scan"}
FoundPCs == {"enter_found", "leave_found", "del_found", "del_clear"}

TypeOK ==
  /\ key \in [Slots -> Guests \union {Free}]
  /\ owner \in [Slots -> Threads \union {Nobody}]
  /\ depth \in [Slots -> Nat]
  /\ hostInit \in [Slots -> BOOLEAN]
  /\ pc \in [Threads -> {"idle"} \union InitPCs \union ScanPCs \union FoundPCs]
  /\ arg \in [Threads -> Guests \union {Free}]
  /\ idx \in [Threads -> Slots]
  /\ life \in [Guests -> {"dead", "initing", "live", "deleting"}]
  /\ held \in [Uses -> Nat]
  /\ seen \in [Threads -> SUBSET Guests]
  /\ others \in [Threads -> SUBSET Guests]

Init ==
  /\ key = [s \in Slots |-> Free]
  /\ owner = [s \in Slots |-> Nobody]
  /\ depth = [s \in Slots |-> 0]
  /\ hostInit = [s \in Slots |-> FALSE]
  /\ pc = [t \in Threads |-> "idle"]
  /\ arg = [t \in Threads |-> Free]
  /\ idx = [t \in Threads |-> 1]
  /\ life = [g \in Guests |-> "dead"]
  /\ held = [u \in Uses |-> 0]
  /\ seen = [t \in Threads |-> {}]
  /\ others = [t \in Threads |-> {}]

-----------------------------------------------------------------------------
(* The callers.                                                            *)

(* mov rsi, map_va; mov ecx, max_slots: every wrapper starts at slot 1.   *)
Call(t, g, label) ==
  /\ pc[t] = "idle"
  /\ pc' = [pc EXCEPT ![t] = label]
  /\ arg' = [arg EXCEPT ![t] = g]
  /\ idx' = [idx EXCEPT ![t] = 1]
  /\ UNCHANGED table

CallInit(t, g) ==
  /\ life[g] = "dead"
  /\ SerialInit => \A u \in Threads : pc[u] \notin InitPCs
  /\ WithinCapacity => Cardinality(Registered) < MaxSlots
  /\ Call(t, g, "init_scan")
  /\ life' = [life EXCEPT ![g] = "initing"]
  /\ seen' = [seen EXCEPT ![t] = {}]
  /\ others' = [others EXCEPT ![t] = Registered]
  /\ UNCHANGED held

CallEnter(t, g) ==
  /\ life[g] = "live"
  /\ held[<<t, g>>] < MaxDepth
  /\ Call(t, g, "enter_scan")
  /\ UNCHANGED <<life, held, history>>

CallLeave(t, g) ==
  /\ life[g] = "live"
  /\ held[<<t, g>>] > 0
  /\ Call(t, g, "leave_scan")
  /\ UNCHANGED <<life, held, history>>

CallDelete(t, g) ==
  /\ life[g] = "live"
  /\ \A u \in Threads : held[<<u, g>>] = 0 /\ ~(pc[u] # "idle" /\ arg[u] = g)
  /\ Call(t, g, "del_scan")
  /\ life' = [life EXCEPT ![g] = "deleting"]
  /\ UNCHANGED <<held, history>>

-----------------------------------------------------------------------------
(* The scans.                                                              *)

At(t, label) == pc[t] = label
Goto(t, label) == pc' = [pc EXCEPT ![t] = label]

(* ret: the registers the scan used are restored or dead.                  *)
Return(t) ==
  /\ Goto(t, "idle")
  /\ arg' = [arg EXCEPT ![t] = Free]
  /\ idx' = [idx EXCEPT ![t] = 1]

ReturnFromInit(t) ==
  /\ Return(t)
  /\ seen' = [seen EXCEPT ![t] = {}]
  /\ others' = [others EXCEPT ![t] = {}]

(* cmp [rsi], rcx: go to `found` when the slot is the caller's.            *)
Match(t, found) ==
  /\ key[idx[t]] = arg[t]
  /\ Goto(t, found)
  /\ UNCHANGED <<table, arg, idx, life, held, history>>

(* add rsi, CS_SLOT_SIZE; dec; jnz: back to `scan` while slots are left.   *)
Advance(t, scan) ==
  /\ idx[t] < MaxSlots
  /\ idx' = [idx EXCEPT ![t] = @ + 1]
  /\ Goto(t, scan)

Exhausted(t) == idx[t] = MaxSlots

(* Only a caller that initialises a live section again takes the match.    *)
InitCompare(t) ==
  /\ At(t, "init_scan")
  /\ \/ Match(t, "init_found")
     \/ /\ key[idx[t]] # arg[t]
        /\ Goto(t, "init_test")
        /\ UNCHANGED <<table, arg, idx, life, held, history>>

(* Mutant: no jump over cs_init_empty when the table is full. *)
InitTestFallsThrough(t) ==
  /\ At(t, "init_test")
  /\ UNCHANGED <<table, held>>
  /\ \/ /\ key[idx[t]] = Free \/ Exhausted(t)
        /\ Goto(t, "init_empty")
        /\ UNCHANGED <<arg, idx, life, history>>
     \/ /\ key[idx[t]] # Free
        /\ Advance(t, "init_scan")
        /\ UNCHANGED <<arg, life, history>>

(* The second compare of a slot, with 0.  A full table ends the scan: eax  *)
(* is 0, but the Win32 call returns nothing, so the caller goes on.        *)
InitTestEmpty(t) ==
  /\ At(t, "init_test")
  /\ UNCHANGED <<table, held>>
  /\ \/ /\ key[idx[t]] = Free
        /\ Goto(t, "init_empty")
        /\ UNCHANGED <<arg, idx, life, history>>
     \/ /\ key[idx[t]] # Free
        /\ Advance(t, "init_scan")
        /\ seen' = [seen EXCEPT ![t] = @ \union {key[idx[t]]}]
        /\ UNCHANGED <<arg, life, others>>
     \/ /\ key[idx[t]] # Free
        /\ Exhausted(t)
        /\ life' = [life EXCEPT ![arg[t]] = "live"]
        /\ ReturnFromInit(t)

(* Mutant: the store of the guest address left out. *)
InitClaimLost(t) ==
  /\ At(t, "init_empty")
  /\ Goto(t, "init_found")
  /\ UNCHANGED <<table, arg, idx, life, held, history>>

(* cs_init_empty: the store that takes the slot.                           *)
InitClaim(t) ==
  /\ At(t, "init_empty")
  /\ key' = [key EXCEPT ![idx[t]] = arg[t]]
  /\ Goto(t, "init_found")
  /\ UNCHANGED <<owner, depth, hostInit, arg, idx, life, held, history>>

(* cs_init_found: the host's InitializeCriticalSection, then ret.          *)
InitHost(t) ==
  /\ At(t, "init_found")
  /\ owner' = [owner EXCEPT ![idx[t]] = Nobody]
  /\ depth' = [depth EXCEPT ![idx[t]] = 0]
  /\ hostInit' = [hostInit EXCEPT ![idx[t]] = TRUE]
  /\ life' = [life EXCEPT ![arg[t]] = "live"]
  /\ ReturnFromInit(t)
  /\ UNCHANGED <<key, held>>

(* Mutant: the slot pointer not advanced. *)
SkipStuck(t, scan) ==
  /\ key[idx[t]] # arg[t]
  /\ idx[t] < MaxSlots
  /\ Goto(t, scan)
  /\ UNCHANGED <<table, arg, idx, life, held, history>>

(* Mutant: an empty slot taken for the end of the table. *)
SkipUntilHole(t, scan) ==
  /\ key[idx[t]] \notin {arg[t], Free}
  /\ Advance(t, scan)
  /\ UNCHANGED <<table, arg, life, held, history>>

EnterScanStopsAtHole(t) ==
  /\ At(t, "enter_scan")
  /\ \/ Match(t, "enter_found")
     \/ SkipUntilHole(t, "enter_scan")
     \/ /\ key[idx[t]] # arg[t]
        /\ Exhausted(t) \/ key[idx[t]] = Free
        /\ Return(t)
        /\ held' = [held EXCEPT ![<<t, arg[t]>>] = @ + 1]
        /\ UNCHANGED <<table, life, history>>

(* The scan of Enter, Leave and Delete does not stop at an empty slot.     *)
Skip(t, scan) ==
  /\ key[idx[t]] # arg[t]
  /\ Advance(t, scan)
  /\ UNCHANGED <<table, arg, life, held, history>>

(* The address is nowhere: ret, without a host call.  The caller of Enter  *)
(* cannot tell this from having got the section.                           *)
EnterScan(t) ==
  /\ At(t, "enter_scan")
  /\ \/ Match(t, "enter_found")
     \/ Skip(t, "enter_scan")
     \/ /\ key[idx[t]] # arg[t]
        /\ Exhausted(t)
        /\ Return(t)
        /\ held' = [held EXCEPT ![<<t, arg[t]>>] = @ + 1]
        /\ UNCHANGED <<table, life, history>>

LeaveScan(t) ==
  /\ At(t, "leave_scan")
  /\ \/ Match(t, "leave_found")
     \/ Skip(t, "leave_scan")
     \/ /\ key[idx[t]] # arg[t]
        /\ Exhausted(t)
        /\ Return(t)
        /\ held' = [held EXCEPT ![<<t, arg[t]>>] = @ - 1]
        /\ UNCHANGED <<table, life, history>>

DeleteScan(t) ==
  /\ At(t, "del_scan")
  /\ \/ Match(t, "del_found")
     \/ Skip(t, "del_scan")
     \/ /\ key[idx[t]] # arg[t]
        /\ Exhausted(t)
        /\ Return(t)
        /\ life' = [life EXCEPT ![arg[t]] = "dead"]
        /\ UNCHANGED <<table, held, history>>

-----------------------------------------------------------------------------
(* The host calls, on the section in the slot that was found.              *)

(* Mutant: a host lock that does not count nested Enters. *)
EnterHostNonRecursive(t) ==
  /\ At(t, "enter_found")
  /\ owner[idx[t]] \in {Nobody, t}
  /\ owner' = [owner EXCEPT ![idx[t]] = t]
  /\ depth' = [depth EXCEPT ![idx[t]] = 1]
  /\ held' = [held EXCEPT ![<<t, arg[t]>>] = @ + 1]
  /\ Return(t)
  /\ UNCHANGED <<key, hostInit, life, history>>

EnterHost(t) ==
  /\ At(t, "enter_found")
  /\ owner[idx[t]] \in {Nobody, t}
  /\ owner' = [owner EXCEPT ![idx[t]] = t]
  /\ depth' = [depth EXCEPT ![idx[t]] = @ + 1]
  /\ held' = [held EXCEPT ![<<t, arg[t]>>] = @ + 1]
  /\ Return(t)
  /\ UNCHANGED <<key, hostInit, life, history>>

(* LeaveCriticalSection does not check who calls it; see HostCallsLegal.   *)
LeaveHost(t) ==
  /\ At(t, "leave_found")
  /\ depth' = [depth EXCEPT ![idx[t]] = IF @ > 0 THEN @ - 1 ELSE 0]
  /\ owner' = [owner EXCEPT ![idx[t]] = IF depth[idx[t]] > 1 THEN @ ELSE Nobody]
  /\ held' = [held EXCEPT ![<<t, arg[t]>>] = @ - 1]
  /\ Return(t)
  /\ UNCHANGED <<key, hostInit, life, history>>

(* Mutant: the map slot not freed. *)
DeleteClearLost(t) ==
  /\ At(t, "del_clear")
  /\ life' = [life EXCEPT ![arg[t]] = "dead"]
  /\ Return(t)
  /\ UNCHANGED <<table, held, history>>

DeleteHost(t) ==
  /\ At(t, "del_found")
  /\ hostInit' = [hostInit EXCEPT ![idx[t]] = FALSE]
  /\ Goto(t, "del_clear")
  /\ UNCHANGED <<key, owner, depth, arg, idx, life, held, history>>

(* mov qword ptr [rsi], 0: only now can another Init take the slot.        *)
DeleteClear(t) ==
  /\ At(t, "del_clear")
  /\ key' = [key EXCEPT ![idx[t]] = Free]
  /\ life' = [life EXCEPT ![arg[t]] = "dead"]
  /\ Return(t)
  /\ UNCHANGED <<owner, depth, hostInit, held, history>>

-----------------------------------------------------------------------------
ScanStep(t) ==
  \/ InitCompare(t) \/ InitTestEmpty(t) \/ InitClaim(t) \/ InitHost(t)
  \/ EnterScan(t) \/ LeaveScan(t) \/ DeleteScan(t)
  \/ LeaveHost(t) \/ DeleteHost(t) \/ DeleteClear(t)

Calls(t) ==
  \E g \in Guests :
    CallInit(t, g) \/ CallEnter(t, g) \/ CallLeave(t, g) \/ CallDelete(t, g)

Next == \E t \in Threads : Calls(t) \/ ScanStep(t) \/ EnterHost(t)

Spec == Init /\ [][Next]_vars

(* A thread that the scheduler runs executes its next instruction.  Only   *)
(* EnterHost can block, and nothing is assumed of the callers.             *)
FairSpec == Spec /\ \A t \in Threads : WF_vars(ScanStep(t))

-----------------------------------------------------------------------------
(* Two threads are never inside the same guest section (the promise of     *)
(* build_cs_enter_shim, w2kseh64.py 664-666).                              *)
MutualExclusion ==
  \A g \in Guests : \A t, u \in Threads :
    t # u => held[<<t, g>>] = 0 \/ held[<<u, g>>] = 0

(* Initialised sections and slots correspond one to one, and no slot       *)
(* survives its section (w2kseh64.py 623-661 and 724-756).                 *)
MapCoherent ==
  /\ \A r, s \in Slots : key[r] = key[s] /\ key[r] # Free => r = s
  /\ \A g \in Guests :
       /\ life[g] = "live" => \E s \in Slots : key[s] = g /\ hostInit[s]
       /\ life[g] = "dead" => \A s \in Slots : key[s] # g

(* A scan by Enter, Leave or Delete never comes back without its host      *)
(* call: the slot is still ahead of it, whatever the other threads do to   *)
(* the table meanwhile (w2kseh64.py 672-680, 702-710, 735-742).            *)
ScanFinds ==
  \A t \in Threads :
    pc[t] \in ScanPCs => \E s \in idx[t] .. MaxSlots : key[s] = arg[t]

(* What the callers believe of a live section is what the host section in  *)
(* its slot says, down to the nesting depth.                               *)
HostAgrees ==
  \A s \in Slots : \A t \in Threads :
    key[s] # Free /\ life[key[s]] = "live" =>
      held[<<t, key[s]>>] = IF owner[s] = t THEN depth[s] ELSE 0

(* The host is never called in a way that kernel32 leaves undefined: enter *)
(* or leave an uninitialised section, leave someone else's, delete an      *)
(* entered one, initialise one a second time.                              *)
HostCallsLegal ==
  \A t \in Threads :
    LET s == idx[t] IN
    /\ pc[t] = "init_found" => ~hostInit[s] /\ owner[s] = Nobody
    /\ pc[t] = "enter_found" => hostInit[s]
    /\ pc[t] = "leave_found" => hostInit[s] /\ owner[s] = t
    /\ pc[t] = "del_found" => hostInit[s] /\ owner[s] = Nobody

(* The wrappers implement the Win32 calls: a section is ready from the     *)
(* return of its Init to the return of its Delete.                         *)
Win32 == INSTANCE CriticalSections
           WITH ready <- {g \in Guests : life[g] \in {"live", "deleting"}}
ImplementsWin32 == Win32!Spec

(* Every wrapper call comes to its ret or to the host's Enter, the only    *)
(* place it may wait at: scans are bounded by the slot counter in ecx/edx. *)
ScansEnd ==
  \A t \in Threads :
    pc[t] \notin {"idle", "enter_found"} ~> pc[t] \in {"idle", "enter_found"}
=============================================================================
