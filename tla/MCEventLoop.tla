---------------------------- MODULE MCEventLoop ----------------------------
(* Small instances of EventLoop for TLC. *)
EXTENDS EventLoop

(* A delay to clamp and two to order. *)
MCDelays == {-1, 0, 1}

(* Delays near the end of a 3-bit integer. *)
MCWideDelays == {2, 3}
=============================================================================
