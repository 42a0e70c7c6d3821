----------------------------- MODULE ByteStream -----------------------------
(***************************************************************************)
(* What the send path promises for one connection: the bytes the kernel    *)
(* has taken are always the beginning of the bytes the server undertook to *)
(* send, in their order, with nothing missing and nothing twice.  The      *)
(* promise ends when the server has to forget queued bytes for want of     *)
(* memory, and nothing moves once the stream is closed.                    *)
(***************************************************************************)
EXTENDS Sequences, SequencesExt

CONSTANT Bytes

VARIABLES
    log,    \* the bytes the server undertook to send
    wire,   \* the bytes the kernel has taken
    whole,  \* no byte was forgotten
    open

vars == <<log, wire, whole, open>>

TypeOK == /\ log \in Seq(Bytes)
          /\ wire \in Seq(Bytes)
          /\ whole \in BOOLEAN
          /\ open \in BOOLEAN

Init == log = <<>> /\ wire = <<>> /\ whole = TRUE /\ open = TRUE

\* The server undertakes to send more, or the kernel takes more, or both.
Transfer == /\ open
            /\ IsPrefix(log, log')
            /\ IsPrefix(wire, wire')
            /\ whole' => whole
            /\ whole' => IsPrefix(wire', log')
            /\ open' \in BOOLEAN

Next == Transfer

Spec == Init /\ [][Next]_vars
=============================================================================
