-------------------------- MODULE CriticalSections --------------------------
(***************************************************************************)
(* What a translated program expects of the four Win32 calls that the shim *)
(* library wraps (w2kseh64.py 557-756): a critical section is a recursive  *)
(* lock, named by the address of the guest object.  There is no table, no  *)
(* slot and no scan here, only the promise that CritSecShim has to keep.   *)
(***************************************************************************)
EXTENDS Naturals

CONSTANTS
  Threads,    \* the threads of the translated program
  Guests      \* addresses of its Win32 RTL_CRITICAL_SECTION objects

VARIABLES
  ready,      \* the critical sections that are initialised and not deleted
  held        \* held[<<t, g>>]: how many times t has entered g and not left it

absVars == <<ready, held>>

Uses == Threads \X Guests

Init ==
  /\ ready = {}
  /\ held = [u \in Uses |-> 0]

Initialize(g) ==
  /\ g \notin ready
  /\ ready' = ready \union {g}
  /\ UNCHANGED held

\* The lock is recursive: only another thread's hold keeps t out.
Enter(t, g) ==
  /\ g \in ready
  /\ \A u \in Threads \ {t} : held[<<u, g>>] = 0
  /\ held' = [held EXCEPT ![<<t, g>>] = @ + 1]
  /\ UNCHANGED ready

Leave(t, g) ==
  /\ g \in ready
  /\ held[<<t, g>>] > 0
  /\ held' = [held EXCEPT ![<<t, g>>] = @ - 1]
  /\ UNCHANGED ready

Delete(g) ==
  /\ g \in ready
  /\ \A t \in Threads : held[<<t, g>>] = 0
  /\ ready' = ready \ {g}
  /\ UNCHANGED held

Next ==
  \E g \in Guests :
    \/ Initialize(g)
    \/ Delete(g)
    \/ \E t \in Threads : Enter(t, g) \/ Leave(t, g)

Spec == Init /\ [][Next]_absVars
=============================================================================
