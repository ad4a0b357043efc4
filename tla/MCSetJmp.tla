------------------------------ MODULE MCSetJmp ------------------------------
(* SetJmp for one thread that nests three calls and has two buffers.       *)
EXTENDS SetJmp

MCHome == [b \in Buffers |-> CHOOSE t \in Threads : TRUE]
MCWork == [t \in Threads |-> {0, 1}]
MCDepth == [t \in Threads |-> 3]
=============================================================================
