--------------------------- MODULE MCHostedSession --------------------------
(* Two Sessions that can call each other through their host bindings. *)
EXTENDS HostedSession, TLC

CONSTANTS s1, s2

MCSessions == {s1, s2}

(* Sessions are created alike and nothing orders them. *)
Symmetry == Permutations(MCSessions)
=============================================================================
