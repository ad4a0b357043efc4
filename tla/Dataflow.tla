------------------------------ MODULE Dataflow ------------------------------
(***************************************************************************)
(* What x86x64/pipeline promises of one run over one context: every pass   *)
(* runs at most once, and only when all passes that supply what it reads   *)
(* have run.  In which order the ready passes run is left open.            *)
(***************************************************************************)
CONSTANTS Pass

VARIABLES
  need,    \* need[p]: the passes that must have run before p
  done     \* the passes that have run

vars == <<need, done>>

TypeOK ==
  /\ need \in [Pass -> SUBSET Pass]
  /\ done \subseteq Pass

Init ==
  /\ need \in [Pass -> SUBSET Pass]
  /\ done = {}

(* A new run begins, with dependencies of its own.                         *)
Begin ==
  /\ done' = {}
  /\ need' \in [Pass -> SUBSET Pass]

Perform(p) ==
  /\ p \notin done
  /\ need[p] \subseteq done
  /\ done' = done \union {p}
  /\ UNCHANGED need

Next == Begin \/ \E p \in Pass : Perform(p)

Spec == Init /\ [][Next]_vars
=============================================================================
