---------------------------- MODULE MCPlayground ----------------------------
(* Three runs over three texts, one too long, and one bridge result of each *)
(* kind: an answer, failures with and without a place, a place that is not  *)
(* valid, and a bridge that throws or is of another version.                *)
EXTENDS Playground

MCSources == {"empty", "short", "long"}

MCLength == [s \in MCSources |-> CASE s = "empty" -> 0
                                   [] s = "short" -> 2
                                   [] s = "long"  -> 3]

Payload(version, kind, location) ==
    [protocolVersion |-> version, kind |-> kind, fieldsValid |-> kind # "thrown",
     location |-> location]

MCBridgeResults ==
    {Payload(1, "completed", NoLocation),
     Payload(1, "failed", NoLocation),
     Payload(1, "failed", [start |-> 0, end |-> NoEnd]),
     Payload(1, "failed", [start |-> 1, end |-> 4]),
     Payload(1, "failed", [start |-> -1, end |-> 1]),
     Payload(1, "thrown", NoLocation),
     Payload(2, "completed", NoLocation)}
=============================================================================
