------------------------------ MODULE JobQueue ------------------------------
(***************************************************************************)
(* What the engine promises about promise jobs and queueMicrotask          *)
(* callbacks: one queue, first in first out, each job taken exactly once,  *)
(* and no way to put a taken job back or to drop one that was not taken.   *)
(* Jobs are named by the order in which they were submitted.               *)
(***************************************************************************)
EXTENDS Naturals, Sequences

VARIABLES pending,    \* submitted and not yet taken, oldest first
          submitted,  \* how many jobs were ever submitted
          taken       \* how many jobs were ever taken

vars == <<pending, submitted, taken>>

Init ==
    /\ pending = << >>
    /\ submitted = 0
    /\ taken = 0

Submit ==
    /\ pending' = Append(pending, submitted + 1)
    /\ submitted' = submitted + 1
    /\ UNCHANGED taken

(* Only the oldest job may be taken, and it is the one whose number follows *)
(* the last one taken.                                                      *)
Take ==
    /\ pending # << >>
    /\ Head(pending) = taken + 1
    /\ pending' = Tail(pending)
    /\ taken' = taken + 1
    /\ UNCHANGED submitted

Next == Submit \/ Take

Spec == Init /\ [][Next]_vars

(* Everybody submitted is either taken or still pending. *)
Conservation == submitted = taken + Len(pending)
=============================================================================
