---------------------------- MODULE FrameReader ----------------------------
(***************************************************************************)
(* The reading of WebSocket frames in src/src/websocket.c: ws_get_message  *)
(* and below.  A frame arrives in pieces; its header is read in up to three*)
(* parts, its payload is appended to the message's and unmasked when it is *)
(* complete.  The status bits that end the connection, and its sending,    *)
(* are in WsClient; here a frame that does is told by its kind.            *)
(*                                                                         *)
(* ws_get_message reads on until a recv() is short.  A call that may stop  *)
(* after any recv() and be made again passes through the same states as    *)
(* one that goes on, so that a step is one recv().                         *)
(***************************************************************************)
EXTENDS Integers, Sequences, FiniteSetsExt

CONSTANTS
    Bytes,
    Xor(_, _),      \* ^
    IsUtf8(_),      \* ws_validate_string() = 0
    PeerFrames,     \* the frames the peer may send
    Nothing,        \* no frame, no message
    max_frm_size,   \* wsconfig.max_frm_size
    ControlLimit,   \* 125, the longest payload of a ping
    MaxFrames       \* bound: how many frames the peer sends

Opcodes == {"CONTINUATION", "TEXT", "BIN", "CLOSE", "PING", "PONG", "RESERVED"}
Masks == [0 .. 3 -> Bytes]
Whole == [opcode : Opcodes, payload : Seq(Bytes)]

(***************************************************************************)
(* A frame as the peer means it.  extended is the size of the extended     *)
(* length field; valid says that it is masked and uses no reserved bit.    *)
(***************************************************************************)
Frame == [opcode : Opcodes, fin : BOOLEAN, valid : BOOLEAN, extended : {0, 2, 8},
          mask : Masks, payload : Seq(Bytes)]

ASSUME XorAssumption ==
    \A b, m \in Bytes : Xor(b, m) \in Bytes /\ Xor(Xor(b, m), m) = b
ASSUME PeerFramesAssumption == PeerFrames \subseteq Frame
ASSUME NothingAssumption == Nothing \notin PeerFrames /\ Nothing \notin Whole
ASSUME LimitsAssumption == max_frm_size \in Nat /\ ControlLimit \in Nat /\ MaxFrames \in Nat

VARIABLES
    wire,       \* the frame on its way, or Nothing
    taken,      \* how many of its bytes recv() has handed over
    frame,      \* the WSFrame: its fields are those of wire
    message,    \* the WSMessage
    status,     \* open, or how it ended: by a Close frame, an error of the peer, a failed call
    delivered,  \* history: the messages handed to onmessage()
    pongs,      \* history: the payloads of the Pong frames sent
    peer        \* history: what the peer has sent, as RFC 6455 reads it

vars == <<wire, taken, frame, message, status, delivered, pongs, peer>>

WSFrame == [reading : BOOLEAN, buflen : Nat]
new_wsframe == [reading |-> TRUE, buflen |-> 0]

(***************************************************************************)
(* size is what was allocated for the payload; the pointer is NULL when it *)
(* is 0.  payloadsz is the length of the payload, and buflen of it belongs *)
(* to the current frame.  A frame or message that does not exist yet is as *)
(* new_wsframe() and new_wsmessage() make it.                              *)
(***************************************************************************)
WSMessage == [opcode : Opcodes, fragmented : BOOLEAN, payload : Seq(Bytes),
              buflen : Nat, size : Nat]
new_wsmessage == [opcode |-> "CONTINUATION", fragmented |-> FALSE, payload |-> <<>>,
                  buflen |-> 0, size |-> 0]

TypeOK == /\ wire \in PeerFrames \cup {Nothing}
          /\ taken \in Nat
          /\ frame \in WSFrame
          /\ message \in WSMessage
          /\ status \in {"open", "closed", "refused", "failed"}
          /\ delivered \in Seq(Whole)
          /\ pongs \in Seq(Seq(Bytes))
          /\ peer \in [sending : Whole \cup {Nothing}, asked : Seq(Whole),
                       conforms : BOOLEAN, ponged : BOOLEAN, frames : Nat]

Init == /\ wire = Nothing
        /\ taken = 0
        /\ frame = new_wsframe
        /\ message = new_wsmessage
        /\ status = "open"
        /\ delivered = <<>>
        /\ pongs = <<>>
        /\ peer = [sending |-> Nothing, asked |-> <<>>, conforms |-> TRUE,
                   ponged |-> FALSE, frames |-> 0]

-----------------------------------------------------------------------------
(* The peer.  The next frame matters once the one before it is read.       *)

\* The message that a data frame brings on or completes.
Extended(sending, f) ==
    IF sending = Nothing THEN [opcode |-> f.opcode, payload |-> f.payload]
                         ELSE [sending EXCEPT !.payload = @ \o f.payload]

IsData(f) == f.opcode \in {"TEXT", "BIN", "CONTINUATION"}

\* Whether RFC 6455 allows the frame, to a peer in the middle of a message or not.
Allowed(sending, f) ==
    /\ f.valid
    /\ f.opcode # "RESERVED"
    /\ IsData(f) => /\ f.opcode = "CONTINUATION" <=> sending # Nothing
                    /\ LET whole == Extended(sending, f)
                       IN  f.fin /\ whole.opcode = "TEXT" => IsUtf8(whole.payload)
    /\ ~IsData(f) => f.fin /\ Len(f.payload) <= ControlLimit

PeerSends(f) ==
    /\ status = "open"
    /\ wire = Nothing
    /\ peer.frames < MaxFrames
    /\ wire' = f
    /\ LET whole == Extended(peer.sending, f)
       IN  peer' = [sending  |-> IF IsData(f) THEN IF f.fin THEN Nothing ELSE whole
                                              ELSE peer.sending,
                    asked    |-> IF IsData(f) /\ f.fin THEN Append(peer.asked, whole)
                                                       ELSE peer.asked,
                    conforms |-> peer.conforms /\ Allowed(peer.sending, f),
                    ponged   |-> peer.ponged \/ (f.opcode = "PONG" /\ peer.sending # Nothing),
                    frames   |-> peer.frames + 1]
    /\ UNCHANGED <<taken, frame, message, status, delivered, pongs>>

-----------------------------------------------------------------------------
(* The handling of a complete frame.  m is the message with its payload.   *)

\* Mutant: the key is not started again with the frame.
ws_unmask_payload_Absolute(buf, offset, mask) ==
    [i \in 1 .. Len(buf) |->
        IF i > offset THEN Xor(buf[i], mask[(i - 1) % 4]) ELSE buf[i]]

ws_unmask_payload(buf, offset, mask) ==
    [i \in 1 .. Len(buf) |->
        IF i > offset THEN Xor(buf[i], mask[(i - offset - 1) % 4]) ELSE buf[i]]

\* Mutant: every frame is unmasked from the beginning of the message.
MaskOffset_Zero(m) == 0

\* msg->mask_offset: where the payload of the current frame begins.
MaskOffset(m) == Len(m.payload) - m.buflen

End(how) == status' = how /\ UNCHANGED <<message, delivered, pongs>>

ws_handle_text_bin(m) ==
    LET clear == ws_unmask_payload(m.payload, MaskOffset(m), wire.mask)
        whole == [opcode |-> m.opcode, payload |-> clear]
        bad == m.opcode = "TEXT" /\ ~IsUtf8(clear)
    IN  \/ /\ m.fragmented /\ wire.opcode # "CONTINUATION"
           /\ End("refused")
        \/ /\ ~m.fragmented \/ wire.opcode = "CONTINUATION"
           /\ \/ /\ ~wire.fin
                 /\ message' = [m EXCEPT !.payload = clear, !.buflen = 0, !.fragmented = TRUE]
                 /\ UNCHANGED <<status, delivered, pongs>>
              \/ /\ wire.fin /\ bad
                 /\ End("refused")
              \/ /\ wire.fin /\ ~bad
                 /\ delivered' = Append(delivered, whole)
                 /\ message' = new_wsmessage
                 /\ UNCHANGED <<status, pongs>>

\* Mutant: the message is freed and not made anew.
ws_handle_pong_Dangling(m) ==
    \/ ~wire.fin /\ End("refused")
    \/ wire.fin /\ message' = Nothing /\ UNCHANGED <<status, delivered, pongs>>

ws_handle_pong(m) ==
    \/ ~wire.fin /\ End("refused")
    \/ wire.fin /\ message' = new_wsmessage /\ UNCHANGED <<status, delivered, pongs>>

\* Mutant: the ping's bytes stay counted as the next frame's.
ws_handle_ping_Counted(m) ==
    LET len == Len(wire.payload)
        pos == Len(m.payload) - len
        rest == [m EXCEPT !.payload = SubSeq(@, 1, pos), !.size = pos]
        answer == ws_unmask_payload(SubSeq(m.payload, pos + 1, pos + len), 0, wire.mask)
    IN  IF ~wire.fin \/ len > ControlLimit THEN End("refused")
        ELSE /\ pongs' = Append(pongs, answer)
             /\ message' = IF len = 0 THEN m ELSE IF m.fragmented THEN rest ELSE new_wsmessage
             /\ UNCHANGED <<status, delivered>>

\* The pong's bytes are taken off the message, and the message is freed unless a
\* data message is under way.  realloc() may fail, though not to the size 0.
ws_handle_ping(m) ==
    LET len == Len(wire.payload)
        pos == Len(m.payload) - len
        rest == [m EXCEPT !.payload = SubSeq(@, 1, pos), !.buflen = 0, !.size = pos]
        answer == ws_unmask_payload(SubSeq(m.payload, pos + 1, pos + len), 0, wire.mask)
    IN  \/ /\ ~wire.fin \/ len > ControlLimit
           /\ End("refused")
        \/ /\ wire.fin /\ len = 0
           /\ pongs' = Append(pongs, <<>>)
           /\ message' = m
           /\ UNCHANGED <<status, delivered>>
        \/ /\ wire.fin /\ len \in 1 .. ControlLimit
           /\ \/ /\ pos > 0
                 /\ End("failed")
              \/ /\ pongs' = Append(pongs, answer)
                 /\ message' = IF m.fragmented THEN rest ELSE new_wsmessage
                 /\ UNCHANGED <<status, delivered>>

ws_manage_payload_opcode(m) ==
    \/ /\ wire.opcode = "CONTINUATION"
       /\ IF m.fragmented THEN ws_handle_text_bin(m) ELSE End("refused")
    \/ /\ wire.opcode \in {"TEXT", "BIN"}
       /\ ws_handle_text_bin([m EXCEPT !.opcode = wire.opcode])
    \/ wire.opcode = "PONG" /\ ws_handle_pong(m)
    \/ wire.opcode = "PING" /\ ws_handle_ping(m)
    \/ wire.opcode \in {"CLOSE", "RESERVED"} /\ End("closed")

-----------------------------------------------------------------------------
(* Reading *)

HeaderSize(f) == 2 + f.extended + 4
FrameSize(f) == HeaderSize(f) + Len(f.payload)

Readable == status = "open" /\ wire # Nothing

\* recv() hands over up to need bytes, and what it has.
Recv(n, need) == /\ n \in 1 .. need
                 /\ taken + n <= FrameSize(wire)
                 /\ IF taken + n = FrameSize(wire) THEN wire' = Nothing /\ taken' = 0
                                                   ELSE taken' = taken + n /\ UNCHANGED wire
                 /\ UNCHANGED peer

\* Mutant: the buffer is made for the frame alone.
Allocated_FrameOnly(m, payloadlen) ==
    IF payloadlen > 0 /\ m.buflen = 0 THEN [m EXCEPT !.size = payloadlen] ELSE m

\* The payload's buffer for the frame: new, grown when the frame's reading begins,
\* or as it is.
Allocated(m, payloadlen) ==
    IF payloadlen > 0 /\ m.size = 0 THEN [m EXCEPT !.size = payloadlen]
    ELSE IF payloadlen > 0 /\ m.buflen = 0 THEN [m EXCEPT !.size = Len(m.payload) + payloadlen]
    ELSE m

\* The message has some more of the frame's payload: all of it, or not yet.
PayloadRead(m) ==
    \/ /\ m.buflen = Len(wire.payload)
       /\ ws_manage_payload_opcode(m)
       /\ frame' = new_wsframe
    \/ /\ m.buflen # Len(wire.payload)
       /\ message' = m
       /\ frame' = [reading |-> FALSE, buflen |-> 0]
       /\ UNCHANGED <<status, delivered, pongs>>

\* How much of the header the next recv() asks for: its first two bytes, the
\* extended length, the mask.
Need(f, buflen) == Min({end \in {2, 2 + f.extended, HeaderSize(f)} : end > buflen}) - buflen

\* With the header complete the payload's turn comes in the same call.
ws_get_frm_header(n) ==
    /\ Readable
    /\ frame.reading
    /\ Recv(n, Need(wire, frame.buflen))
    /\ LET got == frame.buflen + n
           invalid == got >= 2 /\ ~wire.valid
           large == got = HeaderSize(wire) /\ Len(wire.payload) > max_frm_size
       IN  \/ /\ invalid \/ large
              /\ End("refused")
              /\ UNCHANGED frame
           \/ /\ ~invalid /\ ~large
              /\ \/ /\ got < HeaderSize(wire)
                    /\ frame' = [frame EXCEPT !.buflen = got]
                    /\ UNCHANGED <<message, status, delivered, pongs>>
                 \/ /\ got = HeaderSize(wire)
                    /\ PayloadRead(Allocated(message, Len(wire.payload)))

ws_get_frm_payload(n) ==
    /\ Readable
    /\ ~frame.reading
    /\ Recv(n, Len(wire.payload) - message.buflen)
    /\ LET m == Allocated(message, Len(wire.payload))
           pos == taken - HeaderSize(wire)
           masked == ws_unmask_payload(wire.payload, 0, wire.mask)
       IN  PayloadRead([m EXCEPT !.payload = @ \o SubSeq(masked, pos + 1, pos + n),
                                 !.buflen = @ + n])

\* recv() or realloc() fails, or the input ends.
ReadFails == /\ status = "open"
             /\ End("failed")
             /\ UNCHANGED <<wire, taken, frame, peer>>

LongestFrame == Max({FrameSize(f) : f \in PeerFrames})

Next == \/ \E f \in PeerFrames : PeerSends(f)
        \/ \E n \in 1 .. LongestFrame : ws_get_frm_header(n) \/ ws_get_frm_payload(n)
        \/ ReadFails

Spec == Init /\ [][Next]_vars

-----------------------------------------------------------------------------
(* Safety *)

\* The reader keeps in step with the frames on the wire: buflen counts the bytes
\* of the current frame and of no other, whatever control frames come in between
\* (ws_handle_ping and ws_handle_text_bin reset it).
InStep ==
    status = "open" =>
        IF wire = Nothing THEN frame = new_wsframe /\ message.buflen = 0
        ELSE taken = frame.buflen + IF frame.reading THEN 0
                                    ELSE HeaderSize(wire) + message.buflen

\* The rest of the frame's payload fits into what was allocated, after fragments
\* of length 0, pings and partial reads: ws_get_frm_payload allocates once a frame.
Fits ==
    (status = "open" /\ ~frame.reading) =>
        Len(message.payload) + Len(wire.payload) - message.buflen <= message.size

\* The messages of a peer that keeps to RFC 6455, and sends no pong in the middle of
\* one and no frame beyond the limit, are handed over: each of them, once, in order,
\* as it was before the masking.
EndToEnd ==
    (peer.conforms /\ ~peer.ponged) =>
        /\ status = "refused" => wire # Nothing /\ Len(wire.payload) > max_frm_size
        /\ (status = "open" /\ wire = Nothing) => delivered = peer.asked

\* The frame reader implements the stream of messages: what earlier frames have
\* brought of a fragmented message is there in the clear.
Clear(m) == SubSeq(m.payload, 1, MaskOffset(m))
Partial == IF status = "open" /\ message.fragmented
           THEN [opcode |-> message.opcode, payload |-> Clear(message)] ELSE Nothing
Messages == INSTANCE MessageStream WITH partial <- Partial, ended <- status # "open"
ImplementsMessages == Messages!Spec

-----------------------------------------------------------------------------
(* What the code's comments say and the code does not do. *)

\* wdserver.c:2 "An rfc6455-complaint Web Display Server": a peer that keeps to the
\* RFC, within the limit, is not refused.  A pong is allowed at any time.
ConformingServed ==
    (peer.conforms /\ status = "refused") => wire # Nothing /\ Len(wire.payload) > max_frm_size
=============================================================================
