------------------------------ MODULE MCUriLoad ------------------------------
(* One mode; timeouts for which the number of tests matters; command lines   *)
(* that are refused for each of the reasons there are.                       *)
EXTENDS UriLoad

MCModes == <<"strict">>

MCCases == <<"encodeURI", "encodeURIComponent">>

Good == [help |-> FALSE, complete |-> TRUE, iterations |-> 1, timeout |-> 60, filesExist |-> TRUE,
         repositoryHead |-> TRUE, standalone |-> FALSE, revisionGiven |-> TRUE]

MCOptions ==
    {Good, [Good EXCEPT !.help = TRUE], [Good EXCEPT !.iterations = 0],
     [Good EXCEPT !.filesExist = FALSE], [Good EXCEPT !.revisionGiven = FALSE],
     [Good EXCEPT !.revisionGiven = FALSE, !.standalone = TRUE]}
=============================================================================
