--------------------------- MODULE MessageStream ---------------------------
(***************************************************************************)
(* What the frame reader promises, frame by frame: the fragments of a data *)
(* message are joined into one message, which is handed over when its last *)
(* fragment has come; a ping is answered with its own bytes and leaves the *)
(* message alone.  A pong drops the message it comes in the middle of:     *)
(* that is the promise of this code, not of RFC 6455.                      *)
(***************************************************************************)
EXTENDS Sequences

CONSTANTS
    PeerFrames,  \* the frames the peer may send
    Nothing      \* no message

VARIABLES
    partial,    \* the message whose fragments are coming in, or Nothing
    delivered,  \* the messages handed over
    pongs,      \* the answered pings
    ended       \* nothing more is read

vars == <<partial, delivered, pongs, ended>>

Init == /\ partial = Nothing
        /\ delivered = <<>>
        /\ pongs = <<>>
        /\ ended = FALSE

\* What is left of the message with one more fragment: it is complete or it goes on.
Joined(message, fin) ==
    IF fin THEN partial' = Nothing /\ delivered' = Append(delivered, message)
           ELSE partial' = message /\ UNCHANGED delivered

Start(f) == /\ f.opcode \in {"TEXT", "BIN"}
            /\ partial = Nothing
            /\ Joined([opcode |-> f.opcode, payload |-> f.payload], f.fin)
            /\ UNCHANGED <<pongs, ended>>

Continue(f) == /\ f.opcode = "CONTINUATION"
               /\ partial # Nothing
               /\ Joined([partial EXCEPT !.payload = @ \o f.payload], f.fin)
               /\ UNCHANGED <<pongs, ended>>

Ping(f) == /\ f.opcode = "PING"
           /\ f.fin
           /\ pongs' = Append(pongs, f.payload)
           /\ UNCHANGED <<partial, delivered, ended>>

Pong(f) == /\ f.opcode = "PONG"
           /\ f.fin
           /\ partial' = Nothing
           /\ UNCHANGED <<delivered, pongs, ended>>

End == /\ ended' = TRUE
       /\ partial' = Nothing
       /\ UNCHANGED <<delivered, pongs>>

Next == /\ ~ended
        /\ \/ \E f \in PeerFrames : Start(f) \/ Continue(f) \/ Ping(f) \/ Pong(f)
           \/ End

Spec == Init /\ [][Next]_vars
=============================================================================
