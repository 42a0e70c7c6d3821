--------------------------- MODULE MCFrameReader ---------------------------
(* Instances of FrameReader for TLC: bytes of two bits, a text is valid     *)
(* when it is free of 3, and a dozen frames of every kind.                 *)
EXTENDS FrameReader

MCBytes == 0 .. 3
MCXor(b, m) == (((b % 2) + (m % 2)) % 2) + (2 * (((b \div 2) + (m \div 2)) % 2))
MCIsUtf8(s) == \A i \in DOMAIN s : s[i] # 3

Mask1 == [j \in 0 .. 3 |-> j]
Mask2 == [j \in 0 .. 3 |-> 3 - j]

F(opcode, fin, payload, mask) ==
    [opcode |-> opcode, fin |-> fin, valid |-> TRUE, extended |-> 0,
     mask |-> mask, payload |-> payload]

DataFrames ==
    { F("TEXT", TRUE, <<1, 2, 0, 0, 1>>, Mask1),
      F("TEXT", FALSE, <<1, 2>>, Mask1),
      F("TEXT", TRUE, <<3>>, Mask2),
      F("TEXT", FALSE, <<>>, Mask2),
      F("CONTINUATION", TRUE, <<0, 2, 1>>, Mask2),
      F("CONTINUATION", FALSE, <<1>>, Mask1),
      [F("BIN", TRUE, <<3>>, Mask1) EXCEPT !.extended = 2] }

ControlFrames ==
    { F("PING", TRUE, <<>>, Mask1),
      F("PING", TRUE, <<2, 0>>, Mask2),
      F("PONG", TRUE, <<1>>, Mask2),
      F("CLOSE", TRUE, <<>>, Mask1) }

\* Frames the server refuses, each for a reason of its own.
WrongFrames ==
    { F("PING", FALSE, <<>>, Mask1),
      F("PING", TRUE, <<0, 0, 0>>, Mask1),
      F("PONG", FALSE, <<>>, Mask1),
      F("BIN", TRUE, <<0, 0, 0, 0, 0, 0>>, Mask1),
      [F("TEXT", TRUE, <<>>, Mask1) EXCEPT !.valid = FALSE] }

MCFrames == DataFrames \cup ControlFrames \cup WrongFrames
=============================================================================
