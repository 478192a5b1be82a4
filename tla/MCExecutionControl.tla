------------------------ MODULE MCExecutionControl ------------------------
(* A small instance of ExecutionControl: one interruption handle that all    *)
(* operations share.                                                         *)
EXTENDS ExecutionControl

CONSTANT h1

MCHandles == {h1}

=============================================================================
