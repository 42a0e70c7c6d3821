---------------------------- MODULE MCEventLoop ----------------------------
(* An instance of EventLoop for TLC: the descriptors and the children are   *)
(* model values, which the liveness properties forbid to interchange.       *)
EXTENDS EventLoop

CONSTANTS f1, f2, p1, p2

TwoFds == {f1, f2}
TwoPids == {p1, p2}
=============================================================================
