---------------------------- MODULE MCConnection ----------------------------
(* Instances of Connection for TLC: every frame is one or two bytes long.  *)
(* An error page ends in the handshake what a Close frame ends after it,   *)
(* and the greeting comes once, at the beginning, so that they can share a *)
(* byte with others.  The throttle threshold is more than the frame that a *)
(* deferred close waits for and one announcement.                          *)
EXTENDS Connection

MCBytes == {"h", "c", "p1", "p2"}
MCSwitching == <<"h">>
MCHttpErr == <<"c">>
MCCloseFrm == <<"c">>
MCPong == <<"p1", "p2">>
MCDirty == <<"h">>
=============================================================================
