----------------------------- MODULE MCCritSec -----------------------------
(* CritSecShim on two threads and a table that is smaller than the set of  *)
(* sections, so that slots are deleted, leave holes and are taken again.   *)
EXTENDS CritSecShim
=============================================================================
