----------------------------- MODULE ResultPage -----------------------------
(***************************************************************************)
(* What the playground's page promises its user: the status line and the   *)
(* panels are about the latest run, a running run reports one outcome, and *)
(* an outcome stays until the user asks for something else.                *)
(***************************************************************************)
EXTENDS Naturals

VARIABLES
    latest,   \* runs started so far; the latest run has this number
    status,   \* the text of the status line
    panels    \* the run whose text the panels hold, 0 for none

vars == <<latest, status, panels>>

Outcomes == {"Complete", "Failed", "Stopped", "Execution terminated"}

Init ==
    /\ latest = 0
    /\ status = "Ready"
    /\ panels = 0

Start ==
    /\ latest' = latest + 1
    /\ status' = "Running"
    /\ panels' = 0

(* The source is refused before a run is started. *)
Refuse ==
    /\ status' = "Failed"
    /\ panels' = 0
    /\ UNCHANGED latest

(* The one report of the latest run. *)
Report ==
    /\ status = "Running"
    /\ status' \in Outcomes
    /\ panels' = IF status' \in {"Complete", "Failed"} THEN latest ELSE 0
    /\ UNCHANGED latest

Clear ==
    /\ status' = "Ready"
    /\ panels' = 0
    /\ UNCHANGED latest

Next == Start \/ Refuse \/ Report \/ Clear

Spec == Init /\ [][Next]_vars
=============================================================================
