--------------------------- MODULE CritSecProofs ---------------------------
(***************************************************************************)
(* Proofs about CritSecShim for any number of threads, sections and slots. *)
(*                                                                         *)
(* The inductive invariant is built in three layers, each resting on those *)
(* before it: the rules the callers keep (Contract), what the slots hold   *)
(* and where the scans stand (Table), and, when the callers stay within    *)
(* capacity, the argument that an Init always finds a slot (Room).         *)
(***************************************************************************)
EXTENDS CritSecShim, FiniteSetTheorems, TLAPS

EnterPCs == {"enter_scan", "enter_found"}
LeavePCs == {"leave_scan", "leave_found"}
DeletePCs == {"del_scan", "del_found", "del_clear"}

(* The callers' rules, seen from inside a wrapper: a thread's section is   *)
(* in the state its call requires, ...                                     *)
CallRules(t) ==
  /\ pc[t] # "idle" => arg[t] \in Guests
  /\ pc[t] \in InitPCs => life[arg[t]] = "initing"
  /\ pc[t] \in EnterPCs \union LeavePCs => life[arg[t]] = "live"
  /\ pc[t] \in LeavePCs => held[<<t, arg[t]>>] > 0
  /\ pc[t] \in DeletePCs => life[arg[t]] = "deleting"

(* ... nobody else works on a section being initialised or deleted, ...    *)
Apart(t, u) ==
  /\ t # u /\ pc[t] \in InitPCs \union DeletePCs /\ pc[u] # "idle"
       => arg[t] # arg[u]
  /\ SerialInit = TRUE /\ pc[t] \in InitPCs /\ pc[u] \in InitPCs => t = u

(* ... and only a live section is entered.                                 *)
Unheld(t, g) == life[g] # "live" => held[<<t, g>>] = 0

Contract ==
  /\ \A t \in Threads : CallRules(t)
  /\ \A t, u \in Threads : Apart(t, u)
  /\ \A t \in Threads, g \in Guests : Unheld(t, g)

(* A slot is empty, or holds the section of one guest object in the state  *)
(* the callers believe it to be in.                                        *)
SlotOK(s) ==
  /\ key[s] = Free => hostInit[s] = FALSE /\ owner[s] = Nobody
  /\ key[s] # Free =>
       /\ life[key[s]] # "dead"
       /\ life[key[s]] = "live" => hostInit[s] = TRUE
       /\ life[key[s]] = "initing" => hostInit[s] = FALSE /\ owner[s] = Nobody
       /\ life[key[s]] \in {"live", "deleting"} =>
            \A t \in Threads :
              held[<<t, key[s]>>] = IF owner[s] = t THEN depth[s] ELSE 0
  /\ owner[s] = Nobody <=> depth[s] = 0

Distinct(r, s) == key[r] = key[s] /\ key[r] # Free => r = s

(* Where a thread inside a wrapper stands in the table.                    *)
PlaceOK(t) ==
  /\ pc[t] = "init_empty" => key[idx[t]] = Free
  /\ pc[t] \in {"init_found"} \union FoundPCs => key[idx[t]] = arg[t]
  /\ pc[t] = "del_clear" => hostInit[idx[t]] = FALSE

(* What its scan has left behind and what is ahead of it.                  *)
ScanOK(t, s) ==
  /\ pc[t] \in {"init_scan", "init_test", "init_empty"} => key[s] # arg[t]
  /\ pc[t] \in ScanPCs /\ key[s] = arg[t] => idx[t] <= s
  /\ pc[t] \in {"del_scan", "del_found"} /\ key[s] = arg[t]
       => hostInit[s] = TRUE

Table ==
  /\ \A s \in Slots : SlotOK(s)
  /\ \A r, s \in Slots : Distinct(r, s)
  /\ \A t \in Threads : PlaceOK(t)
  /\ \A t \in Threads, s \in Slots : ScanOK(t, s)

(* An Init that stays within capacity comes to an empty slot: what it went *)
(* past are different sections, all of them among those that existed when  *)
(* it was called, and there were fewer of these than slots.                *)
RoomOK(t) ==
  pc[t] \in {"init_scan", "init_test"} =>
    /\ seen[t] \subseteq others[t]
    /\ Cardinality(seen[t]) = idx[t] - 1
    /\ Cardinality(others[t]) < MaxSlots
    /\ \A s \in Slots : key[s] # Free => key[s] \in others[t]
    /\ \A s \in Slots : key[s] \in seen[t] => s < idx[t]

Mapped(g) == \E s \in Slots : key[s] = g

Room ==
  /\ \A t \in Threads : RoomOK(t)
  /\ \A g \in Guests : life[g] = "live" => Mapped(g)
  /\ \A t \in Threads : pc[t] \in ScanPCs => Mapped(arg[t])

-----------------------------------------------------------------------------
LEMMA ContractInit == Init => TypeOK /\ Contract
BY ConstAssumption
   DEF Init, TypeOK, Contract, CallRules, Apart, Unheld, Slots, Uses, InitPCs,
       ScanPCs, FoundPCs, EnterPCs, LeavePCs, DeletePCs

LEMMA TypeStep == TypeOK /\ Contract /\ [Next]_vars => TypeOK'
<1> SUFFICES ASSUME TypeOK, \A t \in Threads : CallRules(t)
             PROVE [Next]_vars => TypeOK'
  BY DEF Contract
<1>0. 1 \in Slots /\ \A s \in Slots : s < MaxSlots => s + 1 \in Slots
  BY ConstAssumption DEF Slots
<1> USE DEF TypeOK, Uses, InitPCs, ScanPCs, FoundPCs, EnterPCs, LeavePCs,
            DeletePCs,
            At, Goto, Advance, Exhausted, Return, ReturnFromInit, table,
            history, Call
<1>1. ASSUME NEW t \in Threads, NEW g \in Guests, CallInit(t, g)
      PROVE TypeOK'
  BY <1>1, <1>0 DEF CallInit, Registered
<1>2. ASSUME NEW t \in Threads, NEW g \in Guests, CallEnter(t, g)
      PROVE TypeOK'
  BY <1>2, <1>0 DEF CallEnter
<1>3. ASSUME NEW t \in Threads, NEW g \in Guests, CallLeave(t, g)
      PROVE TypeOK'
  BY <1>3, <1>0 DEF CallLeave
<1>4. ASSUME NEW t \in Threads, NEW g \in Guests, CallDelete(t, g)
      PROVE TypeOK'
  BY <1>4, <1>0 DEF CallDelete
<1>5. ASSUME NEW t \in Threads, InitCompare(t) PROVE TypeOK'
  <2>1. CallRules(t) /\ arg[t] \in Guests
    BY <1>5 DEF InitCompare, CallRules
  <2>2. QED
    BY <1>5, <1>0, <2>1 DEF CallRules, InitCompare, Match
<1>6. ASSUME NEW t \in Threads, InitTestEmpty(t) PROVE TypeOK'
  <2>1. CallRules(t) /\ arg[t] \in Guests
    BY <1>6 DEF InitTestEmpty, CallRules
  <2>2. CASE key[idx[t]] = Free
    BY <1>6, <2>2 DEF InitTestEmpty
  <2>3. CASE key[idx[t]] # Free /\ Advance(t, "init_scan")
    <3>1. /\ UNCHANGED <<table, held, arg, life, others>>
          /\ seen' = [seen EXCEPT ![t] = @ \union {key[idx[t]]}]
      BY <1>6, <2>3 DEF InitTestEmpty
    <3>2. key[idx[t]] \in Guests
      BY <2>3
    <3>3. QED
      BY <1>0, <2>3, <3>1, <3>2
  <2>4. CASE key[idx[t]] # Free /\ ~Advance(t, "init_scan")
    <3>1. /\ UNCHANGED <<table, held>>
          /\ life' = [life EXCEPT ![arg[t]] = "live"]
          /\ ReturnFromInit(t)
      BY <1>6, <2>4 DEF InitTestEmpty
    <3>2. QED
      BY <1>0, <2>1, <3>1
  <2>5. QED
    BY <2>2, <2>3, <2>4
<1>7. ASSUME NEW t \in Threads, InitClaim(t) PROVE TypeOK'
  <2>1. CallRules(t) /\ arg[t] \in Guests
    BY <1>7 DEF InitClaim, CallRules
  <2>2. QED
    BY <1>7, <1>0, <2>1 DEF CallRules, InitClaim
<1>8. ASSUME NEW t \in Threads, InitHost(t) PROVE TypeOK'
  <2>1. CallRules(t) /\ arg[t] \in Guests
    BY <1>8 DEF InitHost, CallRules
  <2>2. QED
    BY <1>8, <1>0, <2>1 DEF CallRules, InitHost
<1>9. ASSUME NEW t \in Threads, EnterScan(t) PROVE TypeOK'
  <2>1. CallRules(t) /\ arg[t] \in Guests
    BY <1>9 DEF EnterScan, CallRules
  <2>2. CASE Match(t, "enter_found")
    BY <1>9, <2>1, <2>2 DEF Match
  <2>3. CASE Skip(t, "enter_scan")
    BY <1>9, <1>0, <2>1, <2>3 DEF Skip
  <2>4. CASE ~Match(t, "enter_found") /\ ~Skip(t, "enter_scan")
    <3>1. /\ Return(t)
          /\ held' = [held EXCEPT ![<<t, arg[t]>>] = @ + 1]
          /\ UNCHANGED <<table, life, history>>
      BY <1>9, <2>4 DEF EnterScan
    <3>2. QED
      BY <1>0, <2>1, <3>1 DEF CallRules
  <2>5. QED
    BY <2>2, <2>3, <2>4
<1>10. ASSUME NEW t \in Threads, LeaveScan(t) PROVE TypeOK'
  <2>1. CallRules(t) /\ arg[t] \in Guests
    BY <1>10 DEF LeaveScan, CallRules
  <2>2. CASE Match(t, "leave_found")
    BY <1>10, <2>1, <2>2 DEF Match
  <2>3. CASE Skip(t, "leave_scan")
    BY <1>10, <1>0, <2>1, <2>3 DEF Skip
  <2>4. CASE ~Match(t, "leave_found") /\ ~Skip(t, "leave_scan")
    <3>1. /\ Return(t)
          /\ held' = [held EXCEPT ![<<t, arg[t]>>] = @ - 1]
          /\ UNCHANGED <<table, life, history>>
      BY <1>10, <2>4 DEF LeaveScan
    <3>2. held[<<t, arg[t]>>] > 0
      BY <1>10, <2>1 DEF CallRules, LeaveScan
    <3>3. QED
      BY <1>0, <2>1, <3>1, <3>2 DEF CallRules
  <2>5. QED
    BY <2>2, <2>3, <2>4
<1>11. ASSUME NEW t \in Threads, DeleteScan(t) PROVE TypeOK'
  <2>1. CallRules(t) /\ arg[t] \in Guests
    BY <1>11 DEF DeleteScan, CallRules
  <2>2. CASE Match(t, "del_found")
    BY <1>11, <2>1, <2>2 DEF Match
  <2>3. CASE Skip(t, "del_scan")
    BY <1>11, <1>0, <2>1, <2>3 DEF Skip
  <2>4. CASE ~Match(t, "del_found") /\ ~Skip(t, "del_scan")
    <3>1. /\ Return(t)
          /\ life' = [life EXCEPT ![arg[t]] = "dead"]
          /\ UNCHANGED <<table, held, history>>
      BY <1>11, <2>4 DEF DeleteScan
    <3>2. QED
      BY <1>0, <2>1, <3>1 DEF CallRules
  <2>5. QED
    BY <2>2, <2>3, <2>4
<1>12. ASSUME NEW t \in Threads, EnterHost(t) PROVE TypeOK'
  <2>1. CallRules(t) /\ arg[t] \in Guests
    BY <1>12 DEF EnterHost, CallRules
  <2>2. QED
    BY <1>12, <1>0, <2>1 DEF CallRules, EnterHost
<1>13. ASSUME NEW t \in Threads, LeaveHost(t) PROVE TypeOK'
  <2>1. CallRules(t) /\ arg[t] \in Guests
    BY <1>13 DEF LeaveHost, CallRules
  <2>2. QED
    BY <1>13, <1>0, <2>1 DEF CallRules, LeaveHost
<1>14. ASSUME NEW t \in Threads, DeleteHost(t) PROVE TypeOK'
  <2>1. CallRules(t) /\ arg[t] \in Guests
    BY <1>14 DEF DeleteHost, CallRules
  <2>2. QED
    BY <1>14, <1>0, <2>1 DEF CallRules, DeleteHost
<1>15. ASSUME NEW t \in Threads, DeleteClear(t) PROVE TypeOK'
  <2>1. CallRules(t) /\ arg[t] \in Guests
    BY <1>15 DEF DeleteClear, CallRules
  <2>2. QED
    BY <1>15, <1>0, <2>1 DEF CallRules, DeleteClear
<1>16. CASE UNCHANGED vars
  BY <1>16 DEF vars
<1>17. QED
  BY <1>1, <1>2, <1>3, <1>4, <1>5, <1>6, <1>7, <1>8, <1>9, <1>10, <1>11,
     <1>12, <1>13, <1>14, <1>15, <1>16 DEF Next, Calls, ScanStep

LEMMA ContractStep == TypeOK /\ Contract /\ [Next]_vars => Contract'
<1> SUFFICES ASSUME TypeOK,
                    \A t \in Threads : CallRules(t),
                    \A t, u \in Threads : Apart(t, u),
                    \A t \in Threads, g \in Guests : Unheld(t, g)
             PROVE [Next]_vars => Contract'
  BY DEF Contract
<1> USE ConstAssumption
    DEF TypeOK, Uses, InitPCs, ScanPCs, FoundPCs, EnterPCs, LeavePCs,
        DeletePCs,
            At, Goto, Advance, Exhausted, Return, ReturnFromInit, table,
            history, Call
<1>1. ASSUME NEW t \in Threads, NEW g \in Guests, CallInit(t, g)
      PROVE Contract'
  <2>1. ASSUME NEW r \in Threads PROVE CallRules(r)'
    BY <1>1, CallRules(r), CallRules(t), Apart(t, r)
       DEF CallRules, Apart, CallInit, Registered
  <2>2. ASSUME NEW r \in Threads, NEW u \in Threads PROVE Apart(r, u)'
    BY <1>1, Apart(r, u), CallRules(r), CallRules(u)
       DEF CallRules, Apart, CallInit, Registered
  <2>3. ASSUME NEW r \in Threads, NEW h \in Guests PROVE Unheld(r, h)'
    BY <1>1, Unheld(r, h), CallRules(t), CallRules(r)
       DEF CallRules, Unheld, CallInit, Registered
  <2>4. QED
    BY <2>1, <2>2, <2>3 DEF Contract
<1>2. ASSUME NEW t \in Threads, NEW g \in Guests, CallEnter(t, g)
      PROVE Contract'
  <2>1. ASSUME NEW r \in Threads PROVE CallRules(r)'
    BY <1>2, CallRules(r), CallRules(t), Apart(t, r)
       DEF CallRules, Apart, CallEnter
  <2>2. ASSUME NEW r \in Threads, NEW u \in Threads PROVE Apart(r, u)'
    BY <1>2, Apart(r, u), CallRules(r), CallRules(u)
       DEF CallRules, Apart, CallEnter
  <2>3. ASSUME NEW r \in Threads, NEW h \in Guests PROVE Unheld(r, h)'
    BY <1>2, Unheld(r, h), CallRules(t), CallRules(r)
       DEF CallRules, Unheld, CallEnter
  <2>4. QED
    BY <2>1, <2>2, <2>3 DEF Contract
<1>3. ASSUME NEW t \in Threads, NEW g \in Guests, CallLeave(t, g)
      PROVE Contract'
  <2>1. ASSUME NEW r \in Threads PROVE CallRules(r)'
    BY <1>3, CallRules(r), CallRules(t), Apart(t, r)
       DEF CallRules, Apart, CallLeave
  <2>2. ASSUME NEW r \in Threads, NEW u \in Threads PROVE Apart(r, u)'
    BY <1>3, Apart(r, u), CallRules(r), CallRules(u)
       DEF CallRules, Apart, CallLeave
  <2>3. ASSUME NEW r \in Threads, NEW h \in Guests PROVE Unheld(r, h)'
    BY <1>3, Unheld(r, h), CallRules(t), CallRules(r)
       DEF CallRules, Unheld, CallLeave
  <2>4. QED
    BY <2>1, <2>2, <2>3 DEF Contract
<1>4. ASSUME NEW t \in Threads, NEW g \in Guests, CallDelete(t, g)
      PROVE Contract'
  <2>1. ASSUME NEW r \in Threads PROVE CallRules(r)'
    BY <1>4, CallRules(r), CallRules(t), Apart(t, r)
       DEF CallRules, Apart, CallDelete
  <2>2. ASSUME NEW r \in Threads, NEW u \in Threads PROVE Apart(r, u)'
    BY <1>4, Apart(r, u), CallRules(r), CallRules(u)
       DEF CallRules, Apart, CallDelete
  <2>3. ASSUME NEW r \in Threads, NEW h \in Guests PROVE Unheld(r, h)'
    BY <1>4, Unheld(r, h), CallRules(t), CallRules(r)
       DEF CallRules, Unheld, CallDelete
  <2>4. QED
    BY <2>1, <2>2, <2>3 DEF Contract
<1>5. ASSUME NEW t \in Threads, InitCompare(t)
      PROVE Contract'
  <2>1. ASSUME NEW r \in Threads PROVE CallRules(r)'
    BY <1>5, CallRules(r), CallRules(t), Apart(t, r)
       DEF CallRules, Apart, InitCompare, Match
  <2>2. ASSUME NEW r \in Threads, NEW u \in Threads PROVE Apart(r, u)'
    BY <1>5, Apart(r, u), CallRules(r), CallRules(u)
       DEF CallRules, Apart, InitCompare, Match
  <2>3. ASSUME NEW r \in Threads, NEW h \in Guests PROVE Unheld(r, h)'
    BY <1>5, Unheld(r, h), CallRules(t), CallRules(r)
       DEF CallRules, Unheld, InitCompare, Match
  <2>4. QED
    BY <2>1, <2>2, <2>3 DEF Contract
<1>6. ASSUME NEW t \in Threads, InitTestEmpty(t)
      PROVE Contract'
  <2>1. ASSUME NEW r \in Threads PROVE CallRules(r)'
    BY <1>6, CallRules(r), CallRules(t), Apart(t, r)
       DEF CallRules, Apart, InitTestEmpty
  <2>2. ASSUME NEW r \in Threads, NEW u \in Threads PROVE Apart(r, u)'
    BY <1>6, Apart(r, u), CallRules(r), CallRules(u)
       DEF CallRules, Apart, InitTestEmpty
  <2>3. ASSUME NEW r \in Threads, NEW h \in Guests PROVE Unheld(r, h)'
    BY <1>6, Unheld(r, h), CallRules(t), CallRules(r)
       DEF CallRules, Unheld, InitTestEmpty
  <2>4. QED
    BY <2>1, <2>2, <2>3 DEF Contract
<1>7. ASSUME NEW t \in Threads, InitClaim(t)
      PROVE Contract'
  <2>1. ASSUME NEW r \in Threads PROVE CallRules(r)'
    BY <1>7, CallRules(r), CallRules(t), Apart(t, r)
       DEF CallRules, Apart, InitClaim
  <2>2. ASSUME NEW r \in Threads, NEW u \in Threads PROVE Apart(r, u)'
    BY <1>7, Apart(r, u), CallRules(r), CallRules(u)
       DEF CallRules, Apart, InitClaim
  <2>3. ASSUME NEW r \in Threads, NEW h \in Guests PROVE Unheld(r, h)'
    BY <1>7, Unheld(r, h), CallRules(t), CallRules(r)
       DEF CallRules, Unheld, InitClaim
  <2>4. QED
    BY <2>1, <2>2, <2>3 DEF Contract
<1>8. ASSUME NEW t \in Threads, InitHost(t)
      PROVE Contract'
  <2>1. ASSUME NEW r \in Threads PROVE CallRules(r)'
    BY <1>8, CallRules(r), CallRules(t), Apart(t, r)
       DEF CallRules, Apart, InitHost
  <2>2. ASSUME NEW r \in Threads, NEW u \in Threads PROVE Apart(r, u)'
    BY <1>8, Apart(r, u), CallRules(r), CallRules(u)
       DEF CallRules, Apart, InitHost
  <2>3. ASSUME NEW r \in Threads, NEW h \in Guests PROVE Unheld(r, h)'
    BY <1>8, Unheld(r, h), CallRules(t), CallRules(r)
       DEF CallRules, Unheld, InitHost
  <2>4. QED
    BY <2>1, <2>2, <2>3 DEF Contract
<1>9. ASSUME NEW t \in Threads, EnterScan(t)
      PROVE Contract'
  <2>1. ASSUME NEW r \in Threads PROVE CallRules(r)'
    BY <1>9, CallRules(r), CallRules(t), Apart(t, r)
       DEF CallRules, Apart, EnterScan, Match, Skip
  <2>2. ASSUME NEW r \in Threads, NEW u \in Threads PROVE Apart(r, u)'
    BY <1>9, Apart(r, u), CallRules(r), CallRules(u)
       DEF CallRules, Apart, EnterScan, Match, Skip
  <2>3. ASSUME NEW r \in Threads, NEW h \in Guests PROVE Unheld(r, h)'
    BY <1>9, Unheld(r, h), CallRules(t), CallRules(r)
       DEF CallRules, Unheld, EnterScan, Match, Skip
  <2>4. QED
    BY <2>1, <2>2, <2>3 DEF Contract
<1>10. ASSUME NEW t \in Threads, LeaveScan(t)
      PROVE Contract'
  <2>1. ASSUME NEW r \in Threads PROVE CallRules(r)'
    BY <1>10, CallRules(r), CallRules(t), Apart(t, r)
       DEF CallRules, Apart, LeaveScan, Match, Skip
  <2>2. ASSUME NEW r \in Threads, NEW u \in Threads PROVE Apart(r, u)'
    BY <1>10, Apart(r, u), CallRules(r), CallRules(u)
       DEF CallRules, Apart, LeaveScan, Match, Skip
  <2>3. ASSUME NEW r \in Threads, NEW h \in Guests PROVE Unheld(r, h)'
    BY <1>10, Unheld(r, h), CallRules(t), CallRules(r)
       DEF CallRules, Unheld, LeaveScan, Match, Skip
  <2>4. QED
    BY <2>1, <2>2, <2>3 DEF Contract
<1>11. ASSUME NEW t \in Threads, DeleteScan(t)
      PROVE Contract'
  <2>1. ASSUME NEW r \in Threads PROVE CallRules(r)'
    BY <1>11, CallRules(r), CallRules(t), Apart(t, r)
       DEF CallRules, Apart, DeleteScan, Match, Skip
  <2>2. ASSUME NEW r \in Threads, NEW u \in Threads PROVE Apart(r, u)'
    BY <1>11, Apart(r, u), CallRules(r), CallRules(u)
       DEF CallRules, Apart, DeleteScan, Match, Skip
  <2>3. ASSUME NEW r \in Threads, NEW h \in Guests PROVE Unheld(r, h)'
    BY <1>11, Unheld(r, h), CallRules(t), CallRules(r)
       DEF CallRules, Unheld, DeleteScan, Match, Skip
  <2>4. QED
    BY <2>1, <2>2, <2>3 DEF Contract
<1>12. ASSUME NEW t \in Threads, EnterHost(t)
      PROVE Contract'
  <2>1. ASSUME NEW r \in Threads PROVE CallRules(r)'
    BY <1>12, CallRules(r), CallRules(t), Apart(t, r)
       DEF CallRules, Apart, EnterHost
  <2>2. ASSUME NEW r \in Threads, NEW u \in Threads PROVE Apart(r, u)'
    BY <1>12, Apart(r, u), CallRules(r), CallRules(u)
       DEF CallRules, Apart, EnterHost
  <2>3. ASSUME NEW r \in Threads, NEW h \in Guests PROVE Unheld(r, h)'
    BY <1>12, Unheld(r, h), CallRules(t), CallRules(r)
       DEF CallRules, Unheld, EnterHost
  <2>4. QED
    BY <2>1, <2>2, <2>3 DEF Contract
<1>13. ASSUME NEW t \in Threads, LeaveHost(t)
      PROVE Contract'
  <2>1. ASSUME NEW r \in Threads PROVE CallRules(r)'
    BY <1>13, CallRules(r), CallRules(t), Apart(t, r)
       DEF CallRules, Apart, LeaveHost
  <2>2. ASSUME NEW r \in Threads, NEW u \in Threads PROVE Apart(r, u)'
    BY <1>13, Apart(r, u), CallRules(r), CallRules(u)
       DEF CallRules, Apart, LeaveHost
  <2>3. ASSUME NEW r \in Threads, NEW h \in Guests PROVE Unheld(r, h)'
    BY <1>13, Unheld(r, h), CallRules(t), CallRules(r)
       DEF CallRules, Unheld, LeaveHost
  <2>4. QED
    BY <2>1, <2>2, <2>3 DEF Contract
<1>14. ASSUME NEW t \in Threads, DeleteHost(t)
      PROVE Contract'
  <2>1. ASSUME NEW r \in Threads PROVE CallRules(r)'
    BY <1>14, CallRules(r), CallRules(t), Apart(t, r)
       DEF CallRules, Apart, DeleteHost
  <2>2. ASSUME NEW r \in Threads, NEW u \in Threads PROVE Apart(r, u)'
    BY <1>14, Apart(r, u), CallRules(r), CallRules(u)
       DEF CallRules, Apart, DeleteHost
  <2>3. ASSUME NEW r \in Threads, NEW h \in Guests PROVE Unheld(r, h)'
    BY <1>14, Unheld(r, h), CallRules(t), CallRules(r)
       DEF CallRules, Unheld, DeleteHost
  <2>4. QED
    BY <2>1, <2>2, <2>3 DEF Contract
<1>15. ASSUME NEW t \in Threads, DeleteClear(t)
      PROVE Contract'
  <2>1. ASSUME NEW r \in Threads PROVE CallRules(r)'
    BY <1>15, CallRules(r), CallRules(t), Apart(t, r)
       DEF CallRules, Apart, DeleteClear
  <2>2. ASSUME NEW r \in Threads, NEW u \in Threads PROVE Apart(r, u)'
    BY <1>15, Apart(r, u), CallRules(r), CallRules(u)
       DEF CallRules, Apart, DeleteClear
  <2>3. ASSUME NEW r \in Threads, NEW h \in Guests PROVE Unheld(r, h)'
    BY <1>15, Unheld(r, h), CallRules(t), CallRules(r)
       DEF CallRules, Unheld, DeleteClear
  <2>4. QED
    BY <2>1, <2>2, <2>3 DEF Contract
<1>16. CASE UNCHANGED vars
  BY <1>16 DEF vars, Contract, CallRules, Apart, Unheld
<1>17. QED
  BY <1>1, <1>2, <1>3, <1>4, <1>5, <1>6, <1>7, <1>8, <1>9, <1>10, <1>11,
     <1>12, <1>13, <1>14, <1>15, <1>16 DEF Next, Calls, ScanStep

(* Every value stays in its type: no scan leaves the table, and no Leave   *)
(* takes a count below zero (w2kseh64.py 632-656, 670-721).                *)
THEOREM Typing == Spec => []TypeOK
<1>1. QED
  BY ContractInit, TypeStep, ContractStep, PTL DEF Spec
-----------------------------------------------------------------------------
LEMMA TableInit == Init => Table
BY ConstAssumption
   DEF Init, Table, SlotOK, Distinct, PlaceOK, ScanOK, Slots, InitPCs, ScanPCs,
       FoundPCs

(* A scan that has not matched here can only match further on.             *)
LEMMA ScanAhead ==
  ASSUME TypeOK, NEW t \in Threads, NEW s \in Slots, pc[t] \in ScanPCs,
         ScanOK(t, s), key[idx[t]] # arg[t], key[s] = arg[t]
  PROVE idx[t] + 1 <= s /\ idx[t] # MaxSlots
<1>1. idx[t] <= s /\ idx[t] # s
  BY DEF ScanOK
<1>2. idx[t] \in Nat /\ s \in Nat /\ s <= MaxSlots /\ MaxSlots \in Nat
  BY ConstAssumption DEF TypeOK, Slots
<1>3. QED
  BY <1>1, <1>2

LEMMA TableStep ==
  ASSUME SerialInit = TRUE, TypeOK, Contract, Table, [Next]_vars
  PROVE Table'
<1> SUFFICES ASSUME \A t \in Threads : CallRules(t),
                    \A t, u \in Threads : Apart(t, u),
                    \A t \in Threads, g \in Guests : Unheld(t, g),
                    \A s \in Slots : SlotOK(s),
                    \A r, s \in Slots : Distinct(r, s),
                    \A t \in Threads : PlaceOK(t),
                    \A t \in Threads, s \in Slots : ScanOK(t, s)
             PROVE Table'
  BY DEF Contract, Table
<1>0. /\ 1 \in Slots
      /\ MaxSlots \in Nat
      /\ \A s \in Slots : s \in Nat /\ 1 <= s /\ s <= MaxSlots
      /\ Free \notin Guests
      /\ Nobody \notin Threads
  BY ConstAssumption DEF Slots
<1> USE <1>0
    DEF TypeOK, Uses, InitPCs, ScanPCs, FoundPCs, EnterPCs, LeavePCs, DeletePCs,
            At, Goto, Advance, Exhausted, Return, ReturnFromInit, table,
            history, Call
<1>1. ASSUME NEW t \in Threads, NEW g \in Guests, CallInit(t, g)
      PROVE Table'
  <2>1. ASSUME NEW s \in Slots PROVE SlotOK(s)'
    BY <1>1, SlotOK(s), Distinct(s, idx[t]), ScanOK(t, s), PlaceOK(t),
       CallRules(t)
       DEF SlotOK, Distinct, ScanOK, PlaceOK, CallRules, Unheld,
           CallInit, Registered
  <2>2. ASSUME NEW r \in Slots, NEW s \in Slots PROVE Distinct(r, s)'
    BY <1>1, Distinct(r, s), ScanOK(t, r), ScanOK(t, s)
       DEF Distinct, ScanOK, CallInit, Registered
  <2>3. ASSUME NEW u \in Threads PROVE PlaceOK(u)'
    BY <1>1, PlaceOK(u), PlaceOK(t), CallRules(t), CallRules(u), Apart(t, u)
       DEF PlaceOK, CallRules, Apart, CallInit, Registered
  <2>4. ASSUME NEW u \in Threads, NEW s \in Slots PROVE ScanOK(u, s)'
    BY <1>1, <1>0, ScanOK(u, s), SlotOK(s), PlaceOK(t), CallRules(t),
       CallRules(u), Apart(t, u)
       DEF ScanOK, SlotOK, PlaceOK, CallRules, Apart, CallInit, Registered
  <2>5. QED
    BY <2>1, <2>2, <2>3, <2>4 DEF Table
<1>2. ASSUME NEW t \in Threads, NEW g \in Guests, CallEnter(t, g)
      PROVE Table'
  <2>1. ASSUME NEW s \in Slots PROVE SlotOK(s)'
    BY <1>2, SlotOK(s), Distinct(s, idx[t]), ScanOK(t, s), PlaceOK(t),
       CallRules(t)
       DEF SlotOK, Distinct, ScanOK, PlaceOK, CallRules, Unheld,
           CallEnter
  <2>2. ASSUME NEW r \in Slots, NEW s \in Slots PROVE Distinct(r, s)'
    BY <1>2, Distinct(r, s), ScanOK(t, r), ScanOK(t, s)
       DEF Distinct, ScanOK, CallEnter
  <2>3. ASSUME NEW u \in Threads PROVE PlaceOK(u)'
    BY <1>2, PlaceOK(u), PlaceOK(t), CallRules(t), CallRules(u), Apart(t, u)
       DEF PlaceOK, CallRules, Apart, CallEnter
  <2>4. ASSUME NEW u \in Threads, NEW s \in Slots PROVE ScanOK(u, s)'
    BY <1>2, <1>0, ScanOK(u, s), SlotOK(s), PlaceOK(t), CallRules(t),
       CallRules(u), Apart(t, u)
       DEF ScanOK, SlotOK, PlaceOK, CallRules, Apart, CallEnter
  <2>5. QED
    BY <2>1, <2>2, <2>3, <2>4 DEF Table
<1>3. ASSUME NEW t \in Threads, NEW g \in Guests, CallLeave(t, g)
      PROVE Table'
  <2>1. ASSUME NEW s \in Slots PROVE SlotOK(s)'
    BY <1>3, SlotOK(s), Distinct(s, idx[t]), ScanOK(t, s), PlaceOK(t),
       CallRules(t)
       DEF SlotOK, Distinct, ScanOK, PlaceOK, CallRules, Unheld,
           CallLeave
  <2>2. ASSUME NEW r \in Slots, NEW s \in Slots PROVE Distinct(r, s)'
    BY <1>3, Distinct(r, s), ScanOK(t, r), ScanOK(t, s)
       DEF Distinct, ScanOK, CallLeave
  <2>3. ASSUME NEW u \in Threads PROVE PlaceOK(u)'
    BY <1>3, PlaceOK(u), PlaceOK(t), CallRules(t), CallRules(u), Apart(t, u)
       DEF PlaceOK, CallRules, Apart, CallLeave
  <2>4. ASSUME NEW u \in Threads, NEW s \in Slots PROVE ScanOK(u, s)'
    BY <1>3, <1>0, ScanOK(u, s), SlotOK(s), PlaceOK(t), CallRules(t),
       CallRules(u), Apart(t, u)
       DEF ScanOK, SlotOK, PlaceOK, CallRules, Apart, CallLeave
  <2>5. QED
    BY <2>1, <2>2, <2>3, <2>4 DEF Table
<1>4. ASSUME NEW t \in Threads, NEW g \in Guests, CallDelete(t, g)
      PROVE Table'
  <2>1. ASSUME NEW s \in Slots PROVE SlotOK(s)'
    BY <1>4, SlotOK(s), Distinct(s, idx[t]), ScanOK(t, s), PlaceOK(t),
       CallRules(t)
       DEF SlotOK, Distinct, ScanOK, PlaceOK, CallRules, Unheld,
           CallDelete
  <2>2. ASSUME NEW r \in Slots, NEW s \in Slots PROVE Distinct(r, s)'
    BY <1>4, Distinct(r, s), ScanOK(t, r), ScanOK(t, s)
       DEF Distinct, ScanOK, CallDelete
  <2>3. ASSUME NEW u \in Threads PROVE PlaceOK(u)'
    BY <1>4, PlaceOK(u), PlaceOK(t), CallRules(t), CallRules(u), Apart(t, u)
       DEF PlaceOK, CallRules, Apart, CallDelete
  <2>4. ASSUME NEW u \in Threads, NEW s \in Slots PROVE ScanOK(u, s)'
    BY <1>4, <1>0, ScanOK(u, s), SlotOK(s), PlaceOK(t), CallRules(t),
       CallRules(u), Apart(t, u)
       DEF ScanOK, SlotOK, PlaceOK, CallRules, Apart, CallDelete
  <2>5. QED
    BY <2>1, <2>2, <2>3, <2>4 DEF Table
<1>5. ASSUME NEW t \in Threads, InitCompare(t)
      PROVE Table'
  <2>1. ASSUME NEW s \in Slots PROVE SlotOK(s)'
    BY <1>5, SlotOK(s), Distinct(s, idx[t]), ScanOK(t, s), PlaceOK(t),
       CallRules(t)
       DEF SlotOK, Distinct, ScanOK, PlaceOK, CallRules, Unheld,
           InitCompare, Match
  <2>2. ASSUME NEW r \in Slots, NEW s \in Slots PROVE Distinct(r, s)'
    BY <1>5, Distinct(r, s), ScanOK(t, r), ScanOK(t, s)
       DEF Distinct, ScanOK, InitCompare, Match
  <2>3. ASSUME NEW u \in Threads PROVE PlaceOK(u)'
    BY <1>5, PlaceOK(u), PlaceOK(t), CallRules(t), CallRules(u), Apart(t, u)
       DEF PlaceOK, CallRules, Apart, InitCompare, Match
  <2>4. ASSUME NEW u \in Threads, NEW s \in Slots PROVE ScanOK(u, s)'
    BY <1>5, <1>0, ScanOK(u, s), SlotOK(s), PlaceOK(t), CallRules(t),
       CallRules(u), Apart(t, u)
       DEF ScanOK, SlotOK, PlaceOK, CallRules, Apart, InitCompare, Match
  <2>5. QED
    BY <2>1, <2>2, <2>3, <2>4 DEF Table
<1>6. ASSUME NEW t \in Threads, InitTestEmpty(t)
      PROVE Table'
  <2>1. ASSUME NEW s \in Slots PROVE SlotOK(s)'
    BY <1>6, SlotOK(s), Distinct(s, idx[t]), ScanOK(t, s), PlaceOK(t),
       CallRules(t)
       DEF SlotOK, Distinct, ScanOK, PlaceOK, CallRules, Unheld,
           InitTestEmpty
  <2>2. ASSUME NEW r \in Slots, NEW s \in Slots PROVE Distinct(r, s)'
    BY <1>6, Distinct(r, s), ScanOK(t, r), ScanOK(t, s)
       DEF Distinct, ScanOK, InitTestEmpty
  <2>3. ASSUME NEW u \in Threads PROVE PlaceOK(u)'
    BY <1>6, PlaceOK(u), PlaceOK(t), CallRules(t), CallRules(u), Apart(t, u)
       DEF PlaceOK, CallRules, Apart, InitTestEmpty
  <2>4. ASSUME NEW u \in Threads, NEW s \in Slots PROVE ScanOK(u, s)'
    BY <1>6, <1>0, ScanOK(u, s), SlotOK(s), PlaceOK(t), CallRules(t),
       CallRules(u), Apart(t, u)
       DEF ScanOK, SlotOK, PlaceOK, CallRules, Apart, InitTestEmpty
  <2>5. QED
    BY <2>1, <2>2, <2>3, <2>4 DEF Table
<1>7. ASSUME NEW t \in Threads, InitClaim(t)
      PROVE Table'
  <2>1. ASSUME NEW s \in Slots PROVE SlotOK(s)'
    BY <1>7, SlotOK(s), Distinct(s, idx[t]), ScanOK(t, s), PlaceOK(t),
       CallRules(t)
       DEF SlotOK, Distinct, ScanOK, PlaceOK, CallRules, Unheld,
           InitClaim
  <2>2. ASSUME NEW r \in Slots, NEW s \in Slots PROVE Distinct(r, s)'
    BY <1>7, Distinct(r, s), ScanOK(t, r), ScanOK(t, s)
       DEF Distinct, ScanOK, InitClaim
  <2>3. ASSUME NEW u \in Threads PROVE PlaceOK(u)'
    BY <1>7, PlaceOK(u), PlaceOK(t), CallRules(t), CallRules(u), Apart(t, u)
       DEF PlaceOK, CallRules, Apart, InitClaim
  <2>4. ASSUME NEW u \in Threads, NEW s \in Slots PROVE ScanOK(u, s)'
    BY <1>7, <1>0, ScanOK(u, s), SlotOK(s), PlaceOK(t), CallRules(t),
       CallRules(u), Apart(t, u)
       DEF ScanOK, SlotOK, PlaceOK, CallRules, Apart, InitClaim
  <2>5. QED
    BY <2>1, <2>2, <2>3, <2>4 DEF Table
<1>8. ASSUME NEW t \in Threads, InitHost(t)
      PROVE Table'
  <2>1. ASSUME NEW s \in Slots PROVE SlotOK(s)'
    BY <1>8, SlotOK(s), Distinct(s, idx[t]), ScanOK(t, s), PlaceOK(t),
       CallRules(t)
       DEF SlotOK, Distinct, ScanOK, PlaceOK, CallRules, Unheld,
           InitHost
  <2>2. ASSUME NEW r \in Slots, NEW s \in Slots PROVE Distinct(r, s)'
    BY <1>8, Distinct(r, s), ScanOK(t, r), ScanOK(t, s)
       DEF Distinct, ScanOK, InitHost
  <2>3. ASSUME NEW u \in Threads PROVE PlaceOK(u)'
    BY <1>8, PlaceOK(u), PlaceOK(t), CallRules(t), CallRules(u), Apart(t, u)
       DEF PlaceOK, CallRules, Apart, InitHost
  <2>4. ASSUME NEW u \in Threads, NEW s \in Slots PROVE ScanOK(u, s)'
    BY <1>8, <1>0, ScanOK(u, s), SlotOK(s), PlaceOK(t), CallRules(t),
       CallRules(u), Apart(t, u)
       DEF ScanOK, SlotOK, PlaceOK, CallRules, Apart, InitHost
  <2>5. QED
    BY <2>1, <2>2, <2>3, <2>4 DEF Table
<1>9. ASSUME NEW t \in Threads, EnterScan(t)
      PROVE Table'
  <2>1. CallRules(t) /\ arg[t] \in Guests /\ idx[t] \in Slots
    BY <1>9 DEF EnterScan, CallRules
  <2>2. CASE Match(t, "enter_found")
    <3>1. ASSUME NEW s \in Slots PROVE SlotOK(s)'
      BY <2>2, SlotOK(s) DEF SlotOK, Match
    <3>2. ASSUME NEW u \in Threads PROVE PlaceOK(u)'
      BY <2>2, PlaceOK(u) DEF PlaceOK, Match
    <3>3. ASSUME NEW u \in Threads, NEW s \in Slots PROVE ScanOK(u, s)'
      BY <1>9, <2>2, ScanOK(u, s) DEF ScanOK, EnterScan, Match
    <3>4. QED
      BY <2>2, <3>1, <3>2, <3>3 DEF Table, Distinct, Match
  <2>3. CASE Skip(t, "enter_scan")
    <3>1. ASSUME NEW s \in Slots PROVE SlotOK(s)'
      BY <2>3, SlotOK(s) DEF SlotOK, Skip
    <3>2. ASSUME NEW u \in Threads PROVE PlaceOK(u)'
      BY <2>3, PlaceOK(u) DEF PlaceOK, Skip
    <3>3. ASSUME NEW u \in Threads, NEW s \in Slots PROVE ScanOK(u, s)'
      <4>1. key[s] = arg[t] => idx[t] + 1 <= s
        BY <1>9, <2>3, ScanOK(t, s), ScanAhead DEF EnterScan, Skip
      <4>2. /\ pc' = pc /\ UNCHANGED <<key, hostInit, arg>>
            /\ idx' = [idx EXCEPT ![t] = idx[t] + 1]
        BY <1>9, <2>3 DEF EnterScan, Skip
      <4>3. QED
        BY <4>1, <4>2, ScanOK(u, s) DEF ScanOK
    <3>4. QED
      BY <2>3, <3>1, <3>2, <3>3 DEF Table, Distinct, Skip
  <2>4. CASE ~Match(t, "enter_found") /\ ~Skip(t, "enter_scan")
    <3>1. /\ key[idx[t]] # arg[t] /\ Exhausted(t) /\ Return(t)
          /\ held' = [held EXCEPT ![<<t, arg[t]>>] = @ + 1]
          /\ UNCHANGED <<table, life, history>>
      BY <1>9, <2>4 DEF EnterScan
    <3>2. ASSUME NEW s \in Slots PROVE key[s] # arg[t]
      BY <1>9, <3>1, ScanOK(t, s), ScanAhead DEF EnterScan
    <3>3. ASSUME NEW s \in Slots PROVE SlotOK(s)'
      BY <2>1, <3>1, <3>2, SlotOK(s) DEF SlotOK
    <3>4. ASSUME NEW u \in Threads PROVE PlaceOK(u)'
      BY <3>1, PlaceOK(u) DEF PlaceOK
    <3>5. ASSUME NEW u \in Threads, NEW s \in Slots PROVE ScanOK(u, s)'
      BY <3>1, ScanOK(u, s) DEF ScanOK
    <3>6. QED
      BY <3>1, <3>3, <3>4, <3>5 DEF Table, Distinct
  <2>5. QED
    BY <2>2, <2>3, <2>4
<1>10. ASSUME NEW t \in Threads, LeaveScan(t)
      PROVE Table'
  <2>1. CallRules(t) /\ arg[t] \in Guests /\ idx[t] \in Slots
    BY <1>10 DEF LeaveScan, CallRules
  <2>2. CASE Match(t, "leave_found")
    <3>1. ASSUME NEW s \in Slots PROVE SlotOK(s)'
      BY <2>2, SlotOK(s) DEF SlotOK, Match
    <3>2. ASSUME NEW u \in Threads PROVE PlaceOK(u)'
      BY <2>2, PlaceOK(u) DEF PlaceOK, Match
    <3>3. ASSUME NEW u \in Threads, NEW s \in Slots PROVE ScanOK(u, s)'
      BY <1>10, <2>2, ScanOK(u, s) DEF ScanOK, LeaveScan, Match
    <3>4. QED
      BY <2>2, <3>1, <3>2, <3>3 DEF Table, Distinct, Match
  <2>3. CASE Skip(t, "leave_scan")
    <3>1. ASSUME NEW s \in Slots PROVE SlotOK(s)'
      BY <2>3, SlotOK(s) DEF SlotOK, Skip
    <3>2. ASSUME NEW u \in Threads PROVE PlaceOK(u)'
      BY <2>3, PlaceOK(u) DEF PlaceOK, Skip
    <3>3. ASSUME NEW u \in Threads, NEW s \in Slots PROVE ScanOK(u, s)'
      <4>1. key[s] = arg[t] => idx[t] + 1 <= s
        BY <1>10, <2>3, ScanOK(t, s), ScanAhead DEF LeaveScan, Skip
      <4>2. /\ pc' = pc /\ UNCHANGED <<key, hostInit, arg>>
            /\ idx' = [idx EXCEPT ![t] = idx[t] + 1]
        BY <1>10, <2>3 DEF LeaveScan, Skip
      <4>3. QED
        BY <4>1, <4>2, ScanOK(u, s) DEF ScanOK
    <3>4. QED
      BY <2>3, <3>1, <3>2, <3>3 DEF Table, Distinct, Skip
  <2>4. CASE ~Match(t, "leave_found") /\ ~Skip(t, "leave_scan")
    <3>1. /\ key[idx[t]] # arg[t] /\ Exhausted(t) /\ Return(t)
          /\ held' = [held EXCEPT ![<<t, arg[t]>>] = @ - 1]
          /\ UNCHANGED <<table, life, history>>
      BY <1>10, <2>4 DEF LeaveScan
    <3>2. ASSUME NEW s \in Slots PROVE key[s] # arg[t]
      BY <1>10, <3>1, ScanOK(t, s), ScanAhead DEF LeaveScan
    <3>3. ASSUME NEW s \in Slots PROVE SlotOK(s)'
      BY <2>1, <3>1, <3>2, SlotOK(s) DEF SlotOK
    <3>4. ASSUME NEW u \in Threads PROVE PlaceOK(u)'
      BY <3>1, PlaceOK(u) DEF PlaceOK
    <3>5. ASSUME NEW u \in Threads, NEW s \in Slots PROVE ScanOK(u, s)'
      BY <3>1, ScanOK(u, s) DEF ScanOK
    <3>6. QED
      BY <3>1, <3>3, <3>4, <3>5 DEF Table, Distinct
  <2>5. QED
    BY <2>2, <2>3, <2>4
<1>11. ASSUME NEW t \in Threads, DeleteScan(t)
      PROVE Table'
  <2>1. CallRules(t) /\ arg[t] \in Guests /\ idx[t] \in Slots
    BY <1>11 DEF DeleteScan, CallRules
  <2>2. CASE Match(t, "del_found")
    <3>1. ASSUME NEW s \in Slots PROVE SlotOK(s)'
      BY <2>2, SlotOK(s) DEF SlotOK, Match
    <3>2. ASSUME NEW u \in Threads PROVE PlaceOK(u)'
      BY <2>2, PlaceOK(u) DEF PlaceOK, Match
    <3>3. ASSUME NEW u \in Threads, NEW s \in Slots PROVE ScanOK(u, s)'
      BY <1>11, <2>2, ScanOK(u, s) DEF ScanOK, DeleteScan, Match
    <3>4. QED
      BY <2>2, <3>1, <3>2, <3>3 DEF Table, Distinct, Match
  <2>3. CASE Skip(t, "del_scan")
    <3>1. ASSUME NEW s \in Slots PROVE SlotOK(s)'
      BY <2>3, SlotOK(s) DEF SlotOK, Skip
    <3>2. ASSUME NEW u \in Threads PROVE PlaceOK(u)'
      BY <2>3, PlaceOK(u) DEF PlaceOK, Skip
    <3>3. ASSUME NEW u \in Threads, NEW s \in Slots PROVE ScanOK(u, s)'
      <4>1. key[s] = arg[t] => idx[t] + 1 <= s
        BY <1>11, <2>3, ScanOK(t, s), ScanAhead DEF DeleteScan, Skip
      <4>2. /\ pc' = pc /\ UNCHANGED <<key, hostInit, arg>>
            /\ idx' = [idx EXCEPT ![t] = idx[t] + 1]
        BY <1>11, <2>3 DEF DeleteScan, Skip
      <4>3. QED
        BY <4>1, <4>2, ScanOK(u, s) DEF ScanOK
    <3>4. QED
      BY <2>3, <3>1, <3>2, <3>3 DEF Table, Distinct, Skip
  <2>4. CASE ~Match(t, "del_found") /\ ~Skip(t, "del_scan")
    <3>1. /\ key[idx[t]] # arg[t] /\ Exhausted(t) /\ Return(t)
          /\ life' = [life EXCEPT ![arg[t]] = "dead"]
          /\ UNCHANGED <<table, held, history>>
      BY <1>11, <2>4 DEF DeleteScan
    <3>2. ASSUME NEW s \in Slots PROVE key[s] # arg[t]
      BY <1>11, <3>1, ScanOK(t, s), ScanAhead DEF DeleteScan
    <3>3. ASSUME NEW s \in Slots PROVE SlotOK(s)'
      BY <2>1, <3>1, <3>2, SlotOK(s) DEF SlotOK
    <3>4. ASSUME NEW u \in Threads PROVE PlaceOK(u)'
      BY <3>1, PlaceOK(u) DEF PlaceOK
    <3>5. ASSUME NEW u \in Threads, NEW s \in Slots PROVE ScanOK(u, s)'
      BY <3>1, ScanOK(u, s) DEF ScanOK
    <3>6. QED
      BY <3>1, <3>3, <3>4, <3>5 DEF Table, Distinct
  <2>5. QED
    BY <2>2, <2>3, <2>4
<1>12. ASSUME NEW t \in Threads, EnterHost(t)
      PROVE Table'
  <2>1. ASSUME NEW s \in Slots PROVE SlotOK(s)'
    BY <1>12, SlotOK(s), Distinct(s, idx[t]), ScanOK(t, s), PlaceOK(t),
       CallRules(t)
       DEF SlotOK, Distinct, ScanOK, PlaceOK, CallRules, Unheld,
           EnterHost
  <2>2. ASSUME NEW r \in Slots, NEW s \in Slots PROVE Distinct(r, s)'
    BY <1>12, Distinct(r, s), ScanOK(t, r), ScanOK(t, s)
       DEF Distinct, ScanOK, EnterHost
  <2>3. ASSUME NEW u \in Threads PROVE PlaceOK(u)'
    BY <1>12, PlaceOK(u), PlaceOK(t), CallRules(t), CallRules(u), Apart(t, u)
       DEF PlaceOK, CallRules, Apart, EnterHost
  <2>4. ASSUME NEW u \in Threads, NEW s \in Slots PROVE ScanOK(u, s)'
    BY <1>12, <1>0, ScanOK(u, s), SlotOK(s), PlaceOK(t), CallRules(t),
       CallRules(u), Apart(t, u)
       DEF ScanOK, SlotOK, PlaceOK, CallRules, Apart, EnterHost
  <2>5. QED
    BY <2>1, <2>2, <2>3, <2>4 DEF Table
<1>13. ASSUME NEW t \in Threads, LeaveHost(t)
      PROVE Table'
  <2>1. ASSUME NEW s \in Slots PROVE SlotOK(s)'
    BY <1>13, SlotOK(s), Distinct(s, idx[t]), ScanOK(t, s), PlaceOK(t),
       CallRules(t)
       DEF SlotOK, Distinct, ScanOK, PlaceOK, CallRules, Unheld,
           LeaveHost
  <2>2. ASSUME NEW r \in Slots, NEW s \in Slots PROVE Distinct(r, s)'
    BY <1>13, Distinct(r, s), ScanOK(t, r), ScanOK(t, s)
       DEF Distinct, ScanOK, LeaveHost
  <2>3. ASSUME NEW u \in Threads PROVE PlaceOK(u)'
    BY <1>13, PlaceOK(u), PlaceOK(t), CallRules(t), CallRules(u), Apart(t, u)
       DEF PlaceOK, CallRules, Apart, LeaveHost
  <2>4. ASSUME NEW u \in Threads, NEW s \in Slots PROVE ScanOK(u, s)'
    BY <1>13, <1>0, ScanOK(u, s), SlotOK(s), PlaceOK(t), CallRules(t),
       CallRules(u), Apart(t, u)
       DEF ScanOK, SlotOK, PlaceOK, CallRules, Apart, LeaveHost
  <2>5. QED
    BY <2>1, <2>2, <2>3, <2>4 DEF Table
<1>14. ASSUME NEW t \in Threads, DeleteHost(t)
      PROVE Table'
  <2>1. ASSUME NEW s \in Slots PROVE SlotOK(s)'
    BY <1>14, SlotOK(s), Distinct(s, idx[t]), ScanOK(t, s), PlaceOK(t),
       CallRules(t)
       DEF SlotOK, Distinct, ScanOK, PlaceOK, CallRules, Unheld,
           DeleteHost
  <2>2. ASSUME NEW r \in Slots, NEW s \in Slots PROVE Distinct(r, s)'
    BY <1>14, Distinct(r, s), ScanOK(t, r), ScanOK(t, s)
       DEF Distinct, ScanOK, DeleteHost
  <2>3. ASSUME NEW u \in Threads PROVE PlaceOK(u)'
    BY <1>14, PlaceOK(u), PlaceOK(t), CallRules(t), CallRules(u), Apart(t, u)
       DEF PlaceOK, CallRules, Apart, DeleteHost
  <2>4. ASSUME NEW u \in Threads, NEW s \in Slots PROVE ScanOK(u, s)'
    BY <1>14, <1>0, ScanOK(u, s), SlotOK(s), PlaceOK(t), CallRules(t),
       CallRules(u), Apart(t, u)
       DEF ScanOK, SlotOK, PlaceOK, CallRules, Apart, DeleteHost
  <2>5. QED
    BY <2>1, <2>2, <2>3, <2>4 DEF Table
<1>15. ASSUME NEW t \in Threads, DeleteClear(t)
      PROVE Table'
  <2>1. ASSUME NEW s \in Slots PROVE SlotOK(s)'
    <3>1. arg[t] \in Guests /\ key[idx[t]] = arg[t] /\ hostInit[idx[t]] = FALSE
      BY <1>15, PlaceOK(t), CallRules(t) DEF PlaceOK, CallRules, DeleteClear
    <3>2. owner[idx[t]] = Nobody
      <4> SUFFICES ASSUME owner[idx[t]] \in Threads PROVE FALSE
        OBVIOUS
      <4>1. held[<<owner[idx[t]], arg[t]>>] = 0
        BY <1>15, <3>1, CallRules(t), Unheld(owner[idx[t]], arg[t])
           DEF Unheld, CallRules, DeleteClear
      <4>2. QED
        BY <1>15, <3>1, <4>1, SlotOK(idx[t]), CallRules(t)
           DEF SlotOK, CallRules, DeleteClear
    <3>3. QED
      BY <1>15, <3>1, <3>2, SlotOK(s), Distinct(s, idx[t])
         DEF SlotOK, Distinct, DeleteClear
  <2>2. ASSUME NEW r \in Slots, NEW s \in Slots PROVE Distinct(r, s)'
    BY <1>15, Distinct(r, s), ScanOK(t, r), ScanOK(t, s)
       DEF Distinct, ScanOK, DeleteClear
  <2>3. ASSUME NEW u \in Threads PROVE PlaceOK(u)'
    BY <1>15, PlaceOK(u), PlaceOK(t), CallRules(t), CallRules(u), Apart(t, u)
       DEF PlaceOK, CallRules, Apart, DeleteClear
  <2>4. ASSUME NEW u \in Threads, NEW s \in Slots PROVE ScanOK(u, s)'
    BY <1>15, <1>0, ScanOK(u, s), SlotOK(s), PlaceOK(t), CallRules(t),
       CallRules(u), Apart(t, u)
       DEF ScanOK, SlotOK, PlaceOK, CallRules, Apart, DeleteClear
  <2>5. QED
    BY <2>1, <2>2, <2>3, <2>4 DEF Table
<1>16. CASE UNCHANGED vars
  BY <1>16 DEF vars, Table, SlotOK, Distinct, PlaceOK, ScanOK
<1>17. QED
  BY <1>1, <1>2, <1>3, <1>4, <1>5, <1>6, <1>7, <1>8, <1>9, <1>10, <1>11,
     <1>12, <1>13, <1>14, <1>15, <1>16 DEF Next, Calls, ScanStep
-----------------------------------------------------------------------------
LEMMA RoomInit == Init => Room
BY DEF Init, Room, RoomOK, ScanPCs

(* A step that stores no key and starts no scan disturbs none of this.     *)
LEMMA RoomKept ==
  ASSUME Room,
         UNCHANGED <<key, seen, others>>,
         \A g \in Guests : life'[g] = "live" => life[g] = "live",
         \A u \in Threads :
           pc'[u] \in {"init_scan", "init_test"}
             => pc[u] \in {"init_scan", "init_test"} /\ idx'[u] = idx[u],
         \A u \in Threads :
           pc'[u] \in ScanPCs => pc[u] \in ScanPCs /\ arg'[u] = arg[u]
  PROVE Room'
<1>1. ASSUME NEW u \in Threads PROVE RoomOK(u)'
  BY <1>1 DEF Room, RoomOK
<1>2. ASSUME NEW g \in Guests, life'[g] = "live" PROVE Mapped(g)'
  BY <1>2 DEF Room, Mapped
<1>3. ASSUME NEW u \in Threads, pc'[u] \in ScanPCs PROVE Mapped(arg[u])'
  BY <1>3 DEF Room, Mapped
<1>4. QED
  BY <1>1, <1>2, <1>3 DEF Room

LEMMA RoomStep ==
  ASSUME SerialInit = TRUE, WithinCapacity = TRUE,
         TypeOK, Contract, Table, Room, [Next]_vars
  PROVE Room'
<1> SUFFICES ASSUME \A t \in Threads : CallRules(t),
                    \A t, u \in Threads : Apart(t, u),
                    \A s \in Slots : SlotOK(s),
                    \A r, s \in Slots : Distinct(r, s),
                    \A t \in Threads : PlaceOK(t),
                    \A t \in Threads : RoomOK(t),
                    \A g \in Guests : life[g] = "live" => Mapped(g),
                    \A t \in Threads : pc[t] \in ScanPCs => Mapped(arg[t])
             PROVE Room'
  BY DEF Contract, Table, Room
<1>0. /\ 1 \in Slots
      /\ MaxSlots \in Nat
      /\ \A s \in Slots : s \in Nat /\ 1 <= s /\ s <= MaxSlots
      /\ Free \notin Guests
  BY ConstAssumption DEF Slots
<1> USE DEF TypeOK, Uses, InitPCs, ScanPCs, FoundPCs, EnterPCs, LeavePCs,
            DeletePCs,
            At, Goto, Advance, Exhausted, Return, ReturnFromInit, table,
            history, Call
<1>1. ASSUME NEW t \in Threads, NEW g \in Guests, CallInit(t, g)
      PROVE Room'
  <2>1. Cardinality(Registered) < MaxSlots
    BY <1>1 DEF CallInit
  <2>2. Cardinality({}) = 0
    BY FS_EmptySet
  <2>3. ASSUME NEW s \in Slots, key[s] # Free PROVE key[s] \in Registered
    BY <2>3, SlotOK(s) DEF SlotOK, Registered
  <2>4. ASSUME NEW u \in Threads PROVE RoomOK(u)'
    BY <1>0, <1>1, <2>1, <2>2, <2>3, RoomOK(u)
       DEF RoomOK, CallInit, Registered
  <2>5. ASSUME NEW h \in Guests, life'[h] = "live" PROVE Mapped(h)'
    BY <1>1, <2>5 DEF Mapped, CallInit
  <2>6. ASSUME NEW u \in Threads, pc'[u] \in ScanPCs PROVE Mapped(arg[u])'
    BY <1>1, <2>6 DEF Mapped, CallInit
  <2>7. QED
    BY <2>4, <2>5, <2>6 DEF Room
<1>2. ASSUME NEW t \in Threads, NEW g \in Guests, CallEnter(t, g)
      PROVE Room'
  <2>3. ASSUME NEW u \in Threads PROVE RoomOK(u)'
    BY <1>2, <1>0, RoomOK(u) DEF RoomOK, CallEnter
  <2>5. ASSUME NEW h \in Guests, life'[h] = "live" PROVE Mapped(h)'
    BY <1>2, <1>0, <2>5
       DEF Mapped, CallEnter
  <2>6. ASSUME NEW u \in Threads, pc'[u] \in ScanPCs PROVE Mapped(arg[u])'
    BY <1>2, <1>0, <2>6, CallRules(u)
       DEF Mapped, CallRules, CallEnter
  <2>7. QED
    BY <2>3, <2>5, <2>6 DEF Room
<1>3. ASSUME NEW t \in Threads, NEW g \in Guests, CallLeave(t, g)
      PROVE Room'
  <2>3. ASSUME NEW u \in Threads PROVE RoomOK(u)'
    BY <1>3, <1>0, RoomOK(u) DEF RoomOK, CallLeave
  <2>5. ASSUME NEW h \in Guests, life'[h] = "live" PROVE Mapped(h)'
    BY <1>3, <1>0, <2>5
       DEF Mapped, CallLeave
  <2>6. ASSUME NEW u \in Threads, pc'[u] \in ScanPCs PROVE Mapped(arg[u])'
    BY <1>3, <1>0, <2>6, CallRules(u)
       DEF Mapped, CallRules, CallLeave
  <2>7. QED
    BY <2>3, <2>5, <2>6 DEF Room
<1>4. ASSUME NEW t \in Threads, NEW g \in Guests, CallDelete(t, g)
      PROVE Room'
  <2>3. ASSUME NEW u \in Threads PROVE RoomOK(u)'
    BY <1>4, <1>0, RoomOK(u) DEF RoomOK, CallDelete
  <2>5. ASSUME NEW h \in Guests, life'[h] = "live" PROVE Mapped(h)'
    BY <1>4, <1>0, <2>5
       DEF Mapped, CallDelete
  <2>6. ASSUME NEW u \in Threads, pc'[u] \in ScanPCs PROVE Mapped(arg[u])'
    BY <1>4, <1>0, <2>6, CallRules(u)
       DEF Mapped, CallRules, CallDelete
  <2>7. QED
    BY <2>3, <2>5, <2>6 DEF Room
<1>5. ASSUME NEW t \in Threads, InitCompare(t)
      PROVE Room'
  <2>3. ASSUME NEW u \in Threads PROVE RoomOK(u)'
    BY <1>5, <1>0, RoomOK(u) DEF RoomOK, InitCompare, Match
  <2>5. ASSUME NEW h \in Guests, life'[h] = "live" PROVE Mapped(h)'
    BY <1>5, <1>0, <2>5
       DEF Mapped, InitCompare, Match
  <2>6. ASSUME NEW u \in Threads, pc'[u] \in ScanPCs PROVE Mapped(arg[u])'
    BY <1>5, <1>0, <2>6, CallRules(u)
       DEF Mapped, CallRules, InitCompare, Match
  <2>7. QED
    BY <2>3, <2>5, <2>6 DEF Room
<1>6. ASSUME NEW t \in Threads, InitTestEmpty(t)
      PROVE Room'
  <2>1. CASE key[idx[t]] = Free
    <3>1. pc' = [pc EXCEPT ![t] = "init_empty"]
          /\ UNCHANGED <<table, arg, idx, life, history>>
      BY <1>6, <2>1 DEF InitTestEmpty
    <3>2. ASSUME NEW u \in Threads PROVE RoomOK(u)'
      BY <3>1, RoomOK(u) DEF RoomOK
    <3>3. QED
      BY <3>1, <3>2 DEF Room, Mapped
  <2>2. CASE key[idx[t]] # Free
    <3> DEFINE k == key[idx[t]]
    <3>1. /\ seen[t] \subseteq others[t] /\ k \in others[t] /\ k \notin seen[t]
          /\ Cardinality(seen[t]) = idx[t] - 1
          /\ Cardinality(others[t]) < MaxSlots
      BY <1>0, <1>6, <2>2, RoomOK(t) DEF RoomOK, InitTestEmpty
    <3>2. IsFiniteSet(others[t]) /\ IsFiniteSet(seen[t])
      BY ConstAssumption, FS_Subset
    <3>3. Cardinality(seen[t] \union {k}) = idx[t]
      <4> HIDE DEF k
      <4>1. Cardinality(seen[t] \union {k}) = Cardinality(seen[t]) + 1
        BY <3>1, <3>2, FS_AddElement
      <4>2. idx[t] \in Nat
        BY <1>0
      <4>3. QED
        BY <3>1, <4>1, <4>2
    <3>4. ~Exhausted(t)
      <4>1. Cardinality(seen[t] \union {k}) <= Cardinality(others[t])
        BY <3>1, <3>2, FS_Subset
      <4>2. Cardinality(others[t]) \in Nat
        BY <3>2, FS_CardinalityType
      <4>3. QED
        BY <1>0, <3>1, <3>3, <4>1, <4>2
    <3>5. /\ pc' = [pc EXCEPT ![t] = "init_scan"]
          /\ idx' = [idx EXCEPT ![t] = idx[t] + 1]
          /\ seen' = [seen EXCEPT ![t] = @ \union {k}]
          /\ UNCHANGED <<key, arg, life, others>>
      BY <1>6, <2>2, <3>4 DEF InitTestEmpty
    <3>6. RoomOK(t)'
      <4>1. seen'[t] = seen[t] \union {k} /\ idx'[t] = idx[t] + 1
        BY <3>5
      <4>2. seen'[t] \subseteq others'[t]
        BY <3>1, <3>5, <4>1
      <4>3. Cardinality(seen'[t]) = idx'[t] - 1
        BY <1>0, <3>3, <4>1
      <4>4. ASSUME NEW s \in Slots, key[s] \in seen'[t] PROVE s < idx'[t]
        <5>1. CASE key[s] = k
          BY <1>0, <2>2, <4>1, <5>1, Distinct(s, idx[t]) DEF Distinct
        <5>2. CASE key[s] \in seen[t]
          <6>1. s < idx[t]
            BY <1>6, <5>2, RoomOK(t) DEF RoomOK, InitTestEmpty
          <6>2. QED
            BY <1>0, <4>1, <6>1
        <5>3. QED
          BY <4>1, <4>4, <5>1, <5>2
      <4>5. QED
        BY <1>6, <3>1, <3>5, <4>2, <4>3, <4>4, RoomOK(t)
           DEF RoomOK, InitTestEmpty
    <3>7. ASSUME NEW u \in Threads, u # t PROVE RoomOK(u)'
      BY <3>5, <3>7, RoomOK(u) DEF RoomOK
    <3>8. QED
      BY <3>5, <3>6, <3>7 DEF Room, Mapped
  <2>3. QED
    BY <2>1, <2>2
<1>7. ASSUME NEW t \in Threads, InitClaim(t)
      PROVE Room'
  <2>1. key[idx[t]] = Free /\ arg[t] \in Guests
    BY <1>7, PlaceOK(t), CallRules(t) DEF PlaceOK, CallRules, InitClaim
  <2>2. /\ key' = [key EXCEPT ![idx[t]] = arg[t]]
        /\ pc' = [pc EXCEPT ![t] = "init_found"]
        /\ UNCHANGED <<arg, idx, life, seen, others>>
    BY <1>7 DEF InitClaim
  <2>3. ASSUME NEW u \in Threads PROVE RoomOK(u)'
    BY <1>7, <2>2, RoomOK(u), Apart(t, u) DEF RoomOK, Apart, InitClaim
  <2>4. ASSUME NEW h \in Guests, Mapped(h) PROVE Mapped(h)'
    BY <1>0, <2>1, <2>2, <2>4 DEF Mapped
  <2>5. ASSUME NEW h \in Guests, life'[h] = "live" PROVE Mapped(h)'
    BY <2>2, <2>4, <2>5
  <2>6. ASSUME NEW u \in Threads, pc'[u] \in ScanPCs PROVE Mapped(arg[u])'
    BY <2>2, <2>4, <2>6, CallRules(u) DEF CallRules
  <2>7. QED
    BY <2>3, <2>5, <2>6 DEF Room
<1>8. ASSUME NEW t \in Threads, InitHost(t)
      PROVE Room'
  <2>3. ASSUME NEW u \in Threads PROVE RoomOK(u)'
    BY <1>8, <1>0, RoomOK(u) DEF RoomOK, InitHost
  <2>5. ASSUME NEW h \in Guests, life'[h] = "live" PROVE Mapped(h)'
    BY <1>8, <1>0, <2>5, PlaceOK(t), CallRules(t)
       DEF Mapped, PlaceOK, CallRules, InitHost
  <2>6. ASSUME NEW u \in Threads, pc'[u] \in ScanPCs PROVE Mapped(arg[u])'
    BY <1>8, <1>0, <2>6, CallRules(u)
       DEF Mapped, CallRules, InitHost
  <2>7. QED
    BY <2>3, <2>5, <2>6 DEF Room
<1>9. ASSUME NEW t \in Threads, EnterScan(t) PROVE Room'
  <2>1. UNCHANGED <<key, seen, others>>
    BY <1>9 DEF EnterScan, Match, Skip
  <2>2. \A g \in Guests : life'[g] = "live" => life[g] = "live"
    BY <1>9 DEF EnterScan, Match, Skip
  <2>3. pc[t] \notin InitPCs /\ pc'[t] \notin InitPCs
    BY <1>9 DEF EnterScan, Match, Skip
  <2>4. pc'[t] \in ScanPCs => pc[t] \in ScanPCs /\ arg'[t] = arg[t]
    BY <1>9 DEF EnterScan, Match, Skip
  <2>5. \A u \in Threads \ {t} :
          pc'[u] = pc[u] /\ arg'[u] = arg[u] /\ idx'[u] = idx[u]
    BY <1>9 DEF EnterScan, Match, Skip
  <2>6. QED
    BY <2>1, <2>2, <2>3, <2>4, <2>5, RoomKept
<1>10. ASSUME NEW t \in Threads, LeaveScan(t) PROVE Room'
  <2>1. UNCHANGED <<key, seen, others>>
    BY <1>10 DEF LeaveScan, Match, Skip
  <2>2. \A g \in Guests : life'[g] = "live" => life[g] = "live"
    BY <1>10 DEF LeaveScan, Match, Skip
  <2>3. pc[t] \notin InitPCs /\ pc'[t] \notin InitPCs
    BY <1>10 DEF LeaveScan, Match, Skip
  <2>4. pc'[t] \in ScanPCs => pc[t] \in ScanPCs /\ arg'[t] = arg[t]
    BY <1>10 DEF LeaveScan, Match, Skip
  <2>5. \A u \in Threads \ {t} :
          pc'[u] = pc[u] /\ arg'[u] = arg[u] /\ idx'[u] = idx[u]
    BY <1>10 DEF LeaveScan, Match, Skip
  <2>6. QED
    BY <2>1, <2>2, <2>3, <2>4, <2>5, RoomKept
<1>11. ASSUME NEW t \in Threads, DeleteScan(t) PROVE Room'
  <2>1. UNCHANGED <<key, seen, others>>
    BY <1>11 DEF DeleteScan, Match, Skip
  <2>2. \A g \in Guests : life'[g] = "live" => life[g] = "live"
    BY <1>11 DEF DeleteScan, Match, Skip
  <2>3. pc[t] \notin InitPCs /\ pc'[t] \notin InitPCs
    BY <1>11 DEF DeleteScan, Match, Skip
  <2>4. pc'[t] \in ScanPCs => pc[t] \in ScanPCs /\ arg'[t] = arg[t]
    BY <1>11 DEF DeleteScan, Match, Skip
  <2>5. \A u \in Threads \ {t} :
          pc'[u] = pc[u] /\ arg'[u] = arg[u] /\ idx'[u] = idx[u]
    BY <1>11 DEF DeleteScan, Match, Skip
  <2>6. QED
    BY <2>1, <2>2, <2>3, <2>4, <2>5, RoomKept
<1>12. ASSUME NEW t \in Threads, EnterHost(t) PROVE Room'
  <2>1. UNCHANGED <<key, seen, others>>
    BY <1>12 DEF EnterHost
  <2>2. \A g \in Guests : life'[g] = "live" => life[g] = "live"
    BY <1>12 DEF EnterHost
  <2>3. pc[t] \notin InitPCs /\ pc'[t] \notin InitPCs
    BY <1>12 DEF EnterHost
  <2>4. pc'[t] \in ScanPCs => pc[t] \in ScanPCs /\ arg'[t] = arg[t]
    BY <1>12 DEF EnterHost
  <2>5. \A u \in Threads \ {t} :
          pc'[u] = pc[u] /\ arg'[u] = arg[u] /\ idx'[u] = idx[u]
    BY <1>12 DEF EnterHost
  <2>6. QED
    BY <2>1, <2>2, <2>3, <2>4, <2>5, RoomKept
<1>13. ASSUME NEW t \in Threads, LeaveHost(t) PROVE Room'
  <2>1. UNCHANGED <<key, seen, others>>
    BY <1>13 DEF LeaveHost
  <2>2. \A g \in Guests : life'[g] = "live" => life[g] = "live"
    BY <1>13 DEF LeaveHost
  <2>3. pc[t] \notin InitPCs /\ pc'[t] \notin InitPCs
    BY <1>13 DEF LeaveHost
  <2>4. pc'[t] \in ScanPCs => pc[t] \in ScanPCs /\ arg'[t] = arg[t]
    BY <1>13 DEF LeaveHost
  <2>5. \A u \in Threads \ {t} :
          pc'[u] = pc[u] /\ arg'[u] = arg[u] /\ idx'[u] = idx[u]
    BY <1>13 DEF LeaveHost
  <2>6. QED
    BY <2>1, <2>2, <2>3, <2>4, <2>5, RoomKept
<1>14. ASSUME NEW t \in Threads, DeleteHost(t) PROVE Room'
  <2>1. UNCHANGED <<key, seen, others>>
    BY <1>14 DEF DeleteHost
  <2>2. \A g \in Guests : life'[g] = "live" => life[g] = "live"
    BY <1>14 DEF DeleteHost
  <2>3. pc[t] \notin InitPCs /\ pc'[t] \notin InitPCs
    BY <1>14 DEF DeleteHost
  <2>4. pc'[t] \in ScanPCs => pc[t] \in ScanPCs /\ arg'[t] = arg[t]
    BY <1>14 DEF DeleteHost
  <2>5. \A u \in Threads \ {t} :
          pc'[u] = pc[u] /\ arg'[u] = arg[u] /\ idx'[u] = idx[u]
    BY <1>14 DEF DeleteHost
  <2>6. QED
    BY <2>1, <2>2, <2>3, <2>4, <2>5, RoomKept
<1>15. ASSUME NEW t \in Threads, DeleteClear(t)
      PROVE Room'
  <2>1. /\ key[idx[t]] = arg[t] /\ arg[t] \in Guests
        /\ life[arg[t]] = "deleting"
    BY <1>15, PlaceOK(t), CallRules(t) DEF PlaceOK, CallRules, DeleteClear
  <2>2. /\ key' = [key EXCEPT ![idx[t]] = Free]
        /\ life' = [life EXCEPT ![arg[t]] = "dead"]
        /\ Return(t)
        /\ UNCHANGED <<seen, others>>
    BY <1>15 DEF DeleteClear
  <2>3. ASSUME NEW u \in Threads PROVE RoomOK(u)'
    BY <1>0, <2>2, RoomOK(u) DEF RoomOK
  <2>4. ASSUME NEW h \in Guests, h # arg[t], Mapped(h) PROVE Mapped(h)'
    BY <1>0, <2>1, <2>2, <2>4 DEF Mapped
  <2>5. ASSUME NEW h \in Guests, life'[h] = "live" PROVE Mapped(h)'
    BY <2>1, <2>2, <2>4, <2>5
  <2>6. ASSUME NEW u \in Threads, pc'[u] \in ScanPCs PROVE Mapped(arg[u])'
    <3>1. u # t /\ pc[u] \in ScanPCs /\ arg'[u] = arg[u]
      BY <2>2, <2>6
    <3>2. arg[u] \in Guests /\ arg[u] # arg[t] /\ Mapped(arg[u])
      BY <1>15, <3>1, CallRules(u), Apart(t, u)
         DEF CallRules, Apart, DeleteClear
    <3>3. QED
      BY <2>4, <3>1, <3>2 DEF Mapped
  <2>7. QED
    BY <2>3, <2>5, <2>6 DEF Room
<1>16. CASE UNCHANGED vars
  BY <1>16 DEF vars, Room, RoomOK, Mapped
<1>17. QED
  BY <1>1, <1>2, <1>3, <1>4, <1>5, <1>6, <1>7, <1>8, <1>9, <1>10, <1>11,
     <1>12, <1>13, <1>14, <1>15, <1>16 DEF Next, Calls, ScanStep
-----------------------------------------------------------------------------
(* When Inits do not overlap, every slot of the table is the lock that the *)
(* callers of its section believe it to be, and kernel32 is never called   *)
(* outside its rules - even after an overflow has left other sections      *)
(* without a slot (w2kseh64.py 623-756).                                   *)
LEMMA TableCorrect ==
  TypeOK /\ Contract /\ Table => HostAgrees /\ HostCallsLegal
<1> SUFFICES ASSUME TypeOK,
                    \A t \in Threads : CallRules(t),
                    \A t \in Threads, g \in Guests : Unheld(t, g),
                    \A s \in Slots : SlotOK(s),
                    \A t \in Threads : PlaceOK(t),
                    \A t \in Threads, s \in Slots : ScanOK(t, s)
             PROVE HostAgrees /\ HostCallsLegal
  BY DEF Contract, Table
<1> USE ConstAssumption
    DEF TypeOK, Uses, InitPCs, ScanPCs, FoundPCs, EnterPCs, LeavePCs, DeletePCs
<1>1. HostAgrees
  BY DEF HostAgrees, SlotOK
<1>2. ASSUME NEW t \in Threads, pc[t] \in {"init_found"} \union FoundPCs
      PROVE arg[t] \in Guests /\ key[idx[t]] = arg[t] /\ idx[t] \in Slots
  BY <1>2, CallRules(t), PlaceOK(t) DEF CallRules, PlaceOK
<1>3. ASSUME NEW t \in Threads, pc[t] = "init_found"
      PROVE hostInit[idx[t]] = FALSE /\ owner[idx[t]] = Nobody
  BY <1>2, <1>3, CallRules(t), SlotOK(idx[t]) DEF CallRules, SlotOK
<1>4. ASSUME NEW t \in Threads, pc[t] = "enter_found"
      PROVE hostInit[idx[t]] = TRUE
  BY <1>2, <1>4, CallRules(t), SlotOK(idx[t]) DEF CallRules, SlotOK
<1>5. ASSUME NEW t \in Threads, pc[t] = "leave_found"
      PROVE hostInit[idx[t]] = TRUE /\ owner[idx[t]] = t
  BY <1>2, <1>5, CallRules(t), SlotOK(idx[t]) DEF CallRules, SlotOK
<1>6. ASSUME NEW t \in Threads, pc[t] = "del_found"
      PROVE hostInit[idx[t]] = TRUE /\ owner[idx[t]] = Nobody
  <2>1. hostInit[idx[t]] = TRUE
    BY <1>2, <1>6, ScanOK(t, idx[t]) DEF ScanOK
  <2>2. SUFFICES ASSUME owner[idx[t]] \in Threads PROVE FALSE
    BY <1>2, <1>6, <2>1
  <2>3. held[<<owner[idx[t]], arg[t]>>] = 0
    BY <1>2, <1>6, <2>2, CallRules(t), Unheld(owner[idx[t]], arg[t])
       DEF CallRules, Unheld
  <2>4. QED
    BY <1>2, <1>6, <2>2, <2>3, CallRules(t), SlotOK(idx[t])
       DEF CallRules, SlotOK
<1>7. QED
  BY <1>1, <1>3, <1>4, <1>5, <1>6 DEF HostCallsLegal

THEOREM HostFaithful ==
  ASSUME SerialInit = TRUE
  PROVE Spec => []HostAgrees
<1>1. QED
  BY ContractInit, TableInit, TypeStep, ContractStep, TableStep, TableCorrect,
     PTL DEF Spec

(* And kernel32 is never called in a way it leaves undefined: each wrapper *)
(* reaches its import only with a slot in the state that the import needs. *)
THEOREM HostNeverMisused ==
  ASSUME SerialInit = TRUE
  PROVE Spec => []HostCallsLegal
<1>1. QED
  BY ContractInit, TableInit, TypeStep, ContractStep, TableStep, TableCorrect,
     PTL DEF Spec

-----------------------------------------------------------------------------
IInv == TypeOK /\ Contract /\ Table /\ Room

LEMMA IInvInductive ==
  ASSUME SerialInit = TRUE, WithinCapacity = TRUE
  PROVE Spec => []IInv
<1>1. Init => IInv
  BY ContractInit, TableInit, RoomInit DEF IInv
<1>2. IInv /\ [Next]_vars => IInv'
  BY TypeStep, ContractStep, TableStep, RoomStep DEF IInv
<1>3. QED
  BY <1>1, <1>2, PTL DEF Spec

LEMMA IInvCorrect == IInv => MutualExclusion /\ MapCoherent /\ ScanFinds
<1> SUFFICES ASSUME IInv PROVE MutualExclusion /\ MapCoherent /\ ScanFinds
  OBVIOUS
<1> USE ConstAssumption DEF IInv, TypeOK, Contract, Table, Room, Uses
<1>1. MapCoherent
  <2>1. ASSUME NEW g \in Guests, life[g] = "live"
        PROVE \E s \in Slots : key[s] = g /\ hostInit[s]
    <3>1. PICK s \in Slots : key[s] = g
      BY <2>1 DEF Mapped
    <3>2. hostInit[s] = TRUE
      BY <2>1, <3>1, SlotOK(s) DEF SlotOK
    <3>3. QED
      BY <3>1, <3>2
  <2>2. ASSUME NEW g \in Guests, life[g] = "dead", NEW s \in Slots
        PROVE key[s] # g
    BY <2>2, SlotOK(s) DEF SlotOK
  <2>3. QED
    BY <2>1, <2>2 DEF MapCoherent, Distinct
<1>2. MutualExclusion
  <2> SUFFICES ASSUME NEW g \in Guests, NEW t \in Threads, NEW u \in Threads,
                      t # u, held[<<t, g>>] # 0, held[<<u, g>>] # 0
               PROVE FALSE
    BY DEF MutualExclusion
  <2>1. life[g] = "live"
    BY Unheld(t, g) DEF Unheld
  <2>2. PICK s \in Slots : key[s] = g
    BY <2>1 DEF Mapped
  <2>3. owner[s] = t /\ owner[s] = u
    BY <2>1, <2>2, SlotOK(s) DEF SlotOK
  <2>4. QED
    BY <2>3
<1>3. ScanFinds
  <2> SUFFICES ASSUME NEW t \in Threads, pc[t] \in ScanPCs
               PROVE \E s \in idx[t] .. MaxSlots : key[s] = arg[t]
    BY DEF ScanFinds
  <2>1. PICK s \in Slots : key[s] = arg[t]
    BY DEF Mapped
  <2>2. idx[t] <= s
    BY <2>1, ScanOK(t, s) DEF ScanOK
  <2>3. s \in idx[t] .. MaxSlots
    BY <2>2 DEF Slots
  <2>4. QED
    BY <2>1, <2>3
<1>4. QED
  BY <1>1, <1>2, <1>3

(* Two threads are never inside the same guest section, for any number of  *)
(* threads, sections and slots, when Inits do not overlap and no more      *)
(* sections exist at a time than slots (w2kseh64.py 664-691).              *)
THEOREM Exclusion ==
  ASSUME SerialInit = TRUE, WithinCapacity = TRUE
  PROVE Spec => []MutualExclusion
<1>1. QED
  BY IInvInductive, IInvCorrect, PTL

(* Under the same conditions a section has exactly one slot for as long as *)
(* it lives.                                                               *)
THEOREM TableFaithful ==
  ASSUME SerialInit = TRUE, WithinCapacity = TRUE
  PROVE Spec => []MapCoherent
<1>1. QED
  BY IInvInductive, IInvCorrect, PTL

(* And no scan of Enter, Leave or Delete misses that slot, whatever other  *)
(* threads put into the table or take out of it during the scan.           *)
THEOREM NoScanMisses ==
  ASSUME SerialInit = TRUE, WithinCapacity = TRUE
  PROVE Spec => []ScanFinds
<1>1. QED
  BY IInvInductive, IInvCorrect, PTL
-----------------------------------------------------------------------------
(* Each step of the wrappers is a step of the Win32 calls, or is not seen  *)
(* by the callers.                                                         *)
LEMMA StepSimulation ==
  ASSUME SerialInit = TRUE, WithinCapacity = TRUE, IInv, [Next]_vars
  PROVE [Win32!Next]_(Win32!absVars)
<1> SUFFICES ASSUME TypeOK,
                    \A t \in Threads : CallRules(t),
                    \A t \in Threads, g \in Guests : Unheld(t, g),
                    \A s \in Slots : SlotOK(s),
                    \A t \in Threads : PlaceOK(t),
                    \A t \in Threads, s \in Slots : ScanOK(t, s),
                    \A t \in Threads : pc[t] \in ScanPCs => Mapped(arg[t])
             PROVE [Win32!Next]_(Win32!absVars)
  BY DEF IInv, Contract, Table, Room
<1> DEFINE Ready == {g \in Guests : life[g] \in {"live", "deleting"}}
<1> USE DEF TypeOK, Uses, InitPCs, ScanPCs, FoundPCs, EnterPCs, LeavePCs,
            DeletePCs
<1>1. ASSUME UNCHANGED held, Ready' = Ready PROVE UNCHANGED Win32!absVars
  BY <1>1 DEF Win32!absVars
<1>2. ASSUME NEW t \in Threads, NEW g \in Guests, CallInit(t, g)
      PROVE UNCHANGED Win32!absVars
  BY <1>1, <1>2 DEF CallInit
<1>3. ASSUME NEW t \in Threads, NEW g \in Guests,
             CallEnter(t, g) \/ CallLeave(t, g)
      PROVE UNCHANGED Win32!absVars
  BY <1>1, <1>3 DEF CallEnter, CallLeave
<1>4. ASSUME NEW t \in Threads, NEW g \in Guests, CallDelete(t, g)
      PROVE UNCHANGED Win32!absVars
  BY <1>1, <1>4 DEF CallDelete
<1>5. ASSUME NEW t \in Threads, InitCompare(t) \/ InitClaim(t) \/ DeleteHost(t)
      PROVE UNCHANGED Win32!absVars
  BY <1>1, <1>5 DEF InitCompare, Match, InitClaim, DeleteHost
<1>6. ASSUME NEW t \in Threads, NEW g \in Guests, life[g] = "initing",
             life' = [life EXCEPT ![g] = "live"], UNCHANGED held
      PROVE Win32!Next
  <2>1. Ready' = Ready \union {g} /\ g \notin Ready
    BY <1>6
  <2>2. Win32!Initialize(g)
    BY <1>6, <2>1 DEF Win32!Initialize
  <2>3. QED
    BY <2>2 DEF Win32!Next
<1>7. ASSUME NEW t \in Threads, InitHost(t) PROVE Win32!Next
  <2>1. arg[t] \in Guests /\ life[arg[t]] = "initing" /\ UNCHANGED held
        /\ life' = [life EXCEPT ![arg[t]] = "live"]
    BY <1>7, CallRules(t) DEF CallRules, InitHost, At
  <2>2. QED
    BY <1>6, <2>1
<1>8. ASSUME NEW t \in Threads, InitTestEmpty(t)
      PROVE Win32!Next \/ UNCHANGED Win32!absVars
  <2>1. CASE UNCHANGED life
    BY <1>1, <1>8, <2>1 DEF InitTestEmpty
  <2>2. CASE life' = [life EXCEPT ![arg[t]] = "live"]
    <3>1. arg[t] \in Guests /\ life[arg[t]] = "initing" /\ UNCHANGED held
      BY <1>8, CallRules(t) DEF CallRules, InitTestEmpty, At
    <3>2. QED
      BY <1>6, <2>2, <3>1
  <2>3. QED
    BY <1>8, <2>1, <2>2 DEF InitTestEmpty
<1>9. ASSUME NEW t \in Threads, pc[t] \in ScanPCs, key[idx[t]] # arg[t]
      PROVE ~Exhausted(t)
  BY <1>9, ScanAhead DEF Mapped, Exhausted
<1>10. ASSUME NEW t \in Threads, EnterScan(t) \/ LeaveScan(t) \/ DeleteScan(t)
       PROVE UNCHANGED Win32!absVars
  <2>1. UNCHANGED <<life, held>>
    BY <1>9, <1>10 DEF EnterScan, LeaveScan, DeleteScan, At, Match, Skip
  <2>2. QED
    BY <1>1, <2>1
<1>11. ASSUME NEW t \in Threads, pc[t] \in FoundPCs
       PROVE /\ arg[t] \in Guests /\ key[idx[t]] = arg[t] /\ idx[t] \in Slots
             /\ arg[t] # Free /\ arg[t] \in Ready
  BY <1>11, ConstAssumption, CallRules(t), PlaceOK(t) DEF CallRules, PlaceOK
<1>12. ASSUME NEW t \in Threads, EnterHost(t) PROVE Win32!Next
  <2>1. life[arg[t]] = "live"
    BY <1>12, CallRules(t) DEF CallRules, EnterHost, At
  <2>2. \A u \in Threads \ {t} : held[<<u, arg[t]>>] = 0
    BY <1>11, <1>12, <2>1, ConstAssumption, SlotOK(idx[t])
       DEF SlotOK, EnterHost, At
  <2>3. Win32!Enter(t, arg[t])
    BY <1>11, <1>12, <2>2 DEF Win32!Enter, EnterHost, At
  <2>4. QED
    BY <1>11, <1>12, <2>3 DEF Win32!Next, EnterHost, At
<1>13. ASSUME NEW t \in Threads, LeaveHost(t) PROVE Win32!Next
  <2>1. held[<<t, arg[t]>>] > 0
    BY <1>13, CallRules(t) DEF CallRules, LeaveHost, At
  <2>2. Win32!Leave(t, arg[t])
    BY <1>11, <1>13, <2>1 DEF Win32!Leave, LeaveHost, At
  <2>3. QED
    BY <1>11, <1>13, <2>2 DEF Win32!Next, LeaveHost, At
<1>14. ASSUME NEW t \in Threads, DeleteClear(t) PROVE Win32!Next
  <2>1. PICK g \in Guests : g = arg[t] /\ life[g] = "deleting"
    BY <1>14, CallRules(t) DEF CallRules, DeleteClear, At
  <2>2. \A u \in Threads : held[<<u, g>>] = 0
    BY <2>1 DEF Unheld
  <2>3. Ready' = Ready \ {g} /\ g \in Ready /\ UNCHANGED held
    BY <1>14, <2>1 DEF DeleteClear
  <2>4. Win32!Delete(g)
    BY <2>2, <2>3 DEF Win32!Delete
  <2>5. QED
    BY <2>4 DEF Win32!Next
<1>15. ASSUME UNCHANGED vars PROVE UNCHANGED Win32!absVars
  BY <1>1, <1>15 DEF vars
<1>16. QED
  BY <1>2, <1>3, <1>4, <1>5, <1>7, <1>8, <1>10, <1>12, <1>13, <1>14, <1>15
     DEF Next, Calls, ScanStep

(* The four wrappers implement the four Win32 calls, for any number of     *)
(* threads, sections and slots, when Inits do not overlap and the table is *)
(* large enough (w2kseh64.py 557-756).                                     *)
THEOREM Refinement ==
  ASSUME SerialInit = TRUE, WithinCapacity = TRUE
  PROVE Spec => ImplementsWin32
<1>1. Init => Win32!Init
  BY DEF Init, Win32!Init, Uses, Win32!Uses
<1>2. IInv /\ [Next]_vars => [Win32!Next]_(Win32!absVars)
  BY StepSimulation
<1>3. QED
  BY <1>1, <1>2, IInvInductive, PTL DEF ImplementsWin32, Win32!Spec, Spec
=============================================================================
