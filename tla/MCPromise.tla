----------------------------- MODULE MCPromise -----------------------------
(* A small instance of Promise: two plain values, one of them the TypeError *)
(* of a cycle, and one object whose "then" is arbitrary.                    *)
EXTENDS Promise

CONSTANTS cycle, object

MCPlain == {cycle}
MCThenables == {object}

=============================================================================
