------------------------------ MODULE MCTracer ------------------------------
(* StepTracer on an image of two or three instructions and one or two DLLs *)
(* above it, with bad addresses below, between and above them.             *)
EXTENDS StepTracer

MCDlls == {<<10, 12>>, <<20, 22>>}
MCOneDll == {<<10, 12>>}
MCNtdll == <<10, 12>>
=============================================================================
