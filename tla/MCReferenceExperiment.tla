----------------------- MODULE MCReferenceExperiment ------------------------
(* Two members, four slots, and a budget that can end in any of them. *)
EXTENDS ReferenceExperiment

MCMembers == <<"js_engine", "v8">>

MCInvocations == {[complete |-> TRUE, timeoutMs |-> 2],
                  [complete |-> TRUE, timeoutMs |-> 0],
                  [complete |-> FALSE, timeoutMs |-> 2]}

MCSpecFiles == {[v8 |-> [wellFormed |-> TRUE, id |-> "v8", shared |-> 1]],
                [v8 |-> [wellFormed |-> TRUE, id |-> "spidermonkey", shared |-> 1]]}
=============================================================================
