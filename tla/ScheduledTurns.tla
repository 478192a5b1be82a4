--------------------------- MODULE ScheduledTurns ---------------------------
(***************************************************************************)
(* What the host is promised about ScheduledTurn tokens (hosting.mbt:      *)
(* "Opaque permission to resume one Session-owned timer callback once").   *)
(* A token is issued once, may run once, and may be withdrawn before.      *)
(***************************************************************************)
EXTENDS Naturals

CONSTANT Tokens

VARIABLES
    issued,  \* tokens handed to the application so far
    live,    \* tokens that still permit a run
    runs     \* how often the callback of each token was entered

vars == <<issued, live, runs>>

Init ==
    /\ issued = {}
    /\ live = {}
    /\ runs = [t \in Tokens |-> 0]

Issue(t) ==
    /\ t \notin issued
    /\ issued' = issued \union {t}
    /\ live' = live \union {t}
    /\ UNCHANGED runs

Run(t) ==
    /\ t \in live
    /\ live' = live \ {t}
    /\ runs' = [runs EXCEPT ![t] = runs[t] + 1]
    /\ UNCHANGED issued

(* clearTimeout, a refusing scheduler, a closed or faulted Session. *)
Withdraw ==
    /\ live' \subseteq live
    /\ UNCHANGED <<issued, runs>>

Next ==
    \/ \E t \in Tokens : Issue(t) \/ Run(t)
    \/ Withdraw

Spec == Init /\ [][Next]_vars

(* The consequence a host relies on. *)
AtMostOneRun == \A t \in Tokens : runs[t] <= 1
=============================================================================
