--------------------------- MODULE MCTest262Gate ----------------------------
(* Two shards; a test with a flag that excludes it from one of the modes.    *)
EXTENDS Test262Gate

MCModes == {"strict", "non-strict"}

MCSuite == [m \in MCModes |-> IF m = "strict" THEN <<"a", "b">> ELSE <<"a">>]

(* The archive was cut short before the first test of the list. *)
MCPartialSuite == [m \in MCModes |-> IF m = "strict" THEN <<"b">> ELSE <<>>]

MCPassedMin == [m \in MCModes |-> 0]
=============================================================================
