------------------------------ MODULE WsClient ------------------------------
(***************************************************************************)
(* The per-connection functions of src/src/websocket.c as operators on one *)
(* WSClient: the send path (ws_respond and below) and the read handlers    *)
(* (read_client_data and below).  A handler is the set of its results: one *)
(* for every outcome of the send(), recv() and realloc() calls it makes.   *)
(* Modules that have several clients, or that keep the history of the byte *)
(* stream, take the results apart.                                         *)
(***************************************************************************)
EXTENDS Integers, Sequences

CONSTANTS
    Bytes,      \* the bytes of outgoing frames, as far as they are told apart
    Thld,       \* WS_THROTTLE_THLD
    Switching,  \* the HTTP/1.1 101 response
    HttpErr,    \* an HTTP error page
    CloseFrm,   \* a WebSocket Close frame
    Pong,       \* a WebSocket Pong frame
    Dirty       \* the binary frame that announces a dirty rectangle

Frames == {Switching, HttpErr, CloseFrm, Pong, Dirty}

ASSUME FramesAssumption == Frames \subseteq Seq(Bytes) \ {<<>>}
\* 2 MiB: a frame is an error page, a greeting, a short announcement, or echoes at most
\* WS_MAX_FRM_SZ, 1 MiB, of a ping.
ASSUME ThldAssumption == Thld \in Nat /\ \A f \in Frames : Len(f) < Thld

StatusBits == {"ERR", "CLOSE", "READING", "SENDING", "THROTTLING"}  \* WS_OK is {}
Stages == {"handshake", "header", "payload"}

(***************************************************************************)
(* sockqueue says whether client->sockqueue is a queue (and not NULL), and *)
(* queued holds its bytes.  stage stands for headers->reading and          *)
(* frame->reading: which reader the next readable event is for.  The last  *)
(* two are the kernel's side of the socket: once a send() has failed with  *)
(* EPIPE or ECONNRESET (sock) every later one fails with EPIPE, and once   *)
(* the peer has closed and all its bytes are read (eof) recv() returns 0.  *)
(***************************************************************************)
WSClient == [status : SUBSET StatusBits, sockqueue : BOOLEAN, queued : Seq(Bytes),
             stage : Stages, sock : {"up", "gone"}, eof : BOOLEAN]

new_wsclient == [status |-> {}, sockqueue |-> FALSE, queued |-> <<>>,
                 stage |-> "handshake", sock |-> "up",
                 eof |-> FALSE]

(***************************************************************************)
(* A result: the client, the bytes the server undertook to send (log), the *)
(* bytes the kernel took (sent), and whether a failed realloc() made the   *)
(* server forget bytes it had undertaken to send (lost).                   *)
(***************************************************************************)
Result(c, log, sent) == [client |-> c, log |-> log, sent |-> sent, lost |-> FALSE]
Quietly(c) == {Result(c, <<>>, <<>>)}

\* Mutant: WS_OK kept as a bit of its own.
ws_set_status_OkBit(c, status) ==
    [c EXCEPT !.status = IF status = {} THEN {"OK"} ELSE status]

ws_set_status(c, status) == [c EXCEPT !.status = status]
ThenSetStatus(results, status) ==
    {[r EXCEPT !.client = ws_set_status(r.client, status)] : r \in results}

-----------------------------------------------------------------------------
(* The send path. *)

\* The byte counts that send(buf) may return, and the errors it may fail with.
SendCounts(c, buf) ==
    IF c.sock = "gone" THEN {} ELSE IF buf = <<>> THEN {0} ELSE 1 .. Len(buf)

SendErrors(c, buf) ==
    IF c.sock = "gone" THEN {"EPIPE"}
    ELSE {"EPIPE", "ECONNRESET"} \cup (IF buf = <<>> THEN {} ELSE {"EAGAIN"})

Failed(c, e) == IF e = "EAGAIN" THEN c ELSE [c EXCEPT !.sock = "gone"]

ws_clear_queue(c) ==
    LET status == c.status \ {"THROTTLING"}
    IN  IF ~c.sockqueue THEN c
        ELSE [c EXCEPT !.sockqueue = FALSE, !.queued = <<>>,
                       !.status = IF {"CLOSE", "SENDING"} \subseteq status
                                  THEN {"CLOSE"} ELSE status]

\* Mutant: the byte after the sent ones is skipped.
ws_queue_sockbuf_Skips(c, buf, bytes) ==
    [c EXCEPT !.sockqueue = TRUE, !.queued = SubSeq(buf, bytes + 2, Len(buf)),
              !.status = @ \cup {"SENDING"}]

ws_queue_sockbuf(c, buf, bytes) ==
    [c EXCEPT !.sockqueue = TRUE, !.queued = SubSeq(buf, bytes + 1, Len(buf)),
              !.status = @ \cup {"SENDING"}]

\* Every error but EPIPE leaves the whole buffer queued: -1 < len.
ws_respond_data(c, buf) ==
    { Result(IF n < Len(buf) THEN ws_queue_sockbuf(c, buf, n) ELSE c, buf, SubSeq(buf, 1, n))
        : n \in SendCounts(c, buf) }
    \cup
    { IF e = "EPIPE" THEN Result(ws_set_status(Failed(c, e), {"ERR", "CLOSE"}), <<>>, <<>>)
                     ELSE Result(ws_queue_sockbuf(Failed(c, e), buf, 0), buf, <<>>)
        : e \in SendErrors(c, buf) }

\* Mutant: the last byte sent stays queued.
chop_nchars_Repeats(buf, n) == IF n = 0 THEN <<>> ELSE SubSeq(buf, n, Len(buf))

\* The new length is 0 when nothing is chopped, too.
chop_nchars(buf, n) == IF n = 0 THEN <<>> ELSE SubSeq(buf, n + 1, Len(buf))

\* What ws_respond_cache does with the first n bytes of the queue sent.
Chopped(c, n) ==
    IF chop_nchars(c.queued, n) = <<>> THEN ws_clear_queue(c)
    ELSE [c EXCEPT !.queued = chop_nchars(@, n)]

\* Mutant: a broken pipe is taken for a full one.
ws_respond_cache_RetriesBroken(c) ==
    { Result(Chopped(c, n), <<>>, SubSeq(c.queued, 1, n)) : n \in SendCounts(c, c.queued) }
    \cup { Result(Failed(c, e), <<>>, <<>>) : e \in SendErrors(c, c.queued) }

\* An error that is neither EPIPE nor EAGAIN reaches chop_nchars as the size
\* (size_t) -1, which chops everything.
ws_respond_cache(c) ==
    { Result(Chopped(c, n), <<>>, SubSeq(c.queued, 1, n)) : n \in SendCounts(c, c.queued) }
    \cup
    { Result(CASE e = "EPIPE"      -> ws_set_status(Failed(c, e), {"ERR", "CLOSE"})
               [] e = "EAGAIN"     -> c
               [] e = "ECONNRESET" -> ws_clear_queue(Failed(c, e)),
             <<>>, <<>>) : e \in SendErrors(c, c.queued) }

\* Mutant: the length of the new frame is compared instead of the queue's.
ws_realloc_send_buf_FrameOnly(c, buf) ==
    { Result([c EXCEPT !.queued = @ \o buf,
                       !.status = IF Len(buf) >= Thld THEN @ \cup {"THROTTLING"} ELSE @],
             buf, <<>>),
      [client |-> ws_set_status(ws_clear_queue(c), {"ERR", "CLOSE"}),
       log |-> <<>>, sent |-> <<>>, lost |-> TRUE] }

\* The buffer is appended, or realloc() fails and the queue is dropped.
ws_realloc_send_buf(c, buf) ==
    LET queue == c.queued \o buf
    IN  { Result([c EXCEPT !.queued = queue,
                           !.status = IF Len(queue) >= Thld THEN @ \cup {"THROTTLING"} ELSE @],
                 buf, <<>>),
          [client |-> ws_set_status(ws_clear_queue(c), {"ERR", "CLOSE"}),
           log |-> <<>>, sent |-> <<>>, lost |-> TRUE] }

\* buf = <<>> is the NULL buffer of handle_ws_writes.
ws_respond(c, buf) ==
    IF ~c.sockqueue THEN ws_respond_data(c, buf)
    ELSE IF buf # <<>> /\ "THROTTLING" \notin c.status THEN ws_realloc_send_buf(c, buf)
    ELSE ws_respond_cache(c)

\* Two frames in a row, from one handler.
RespondBoth(c, buf1, buf2) ==
    UNION { { [client |-> r2.client, log |-> r1.log \o r2.log,
               sent |-> r1.sent \o r2.sent, lost |-> r1.lost \/ r2.lost]
              : r2 \in ws_respond(r1.client, buf2) } : r1 \in ws_respond(c, buf1) }

-----------------------------------------------------------------------------
(* The read handlers. *)

\* recv() said EAGAIN, or gave less than the reader needs.
KeepReading(c) == Quietly(ws_set_status(c, {"READING"}))

\* Mutant: an error does not close.
FailWith_StaysOpen(c, buf) == ws_respond(ws_set_status(c, {"ERR"}), buf)

\* ws_handle_err, ws_handle_close, and read_socket at end of file followed by
\* ws_error: the status is set first, then the frame is sent.
FailWith(c, buf) == ws_respond(ws_set_status(c, {"ERR", "CLOSE"}), buf)
FailQuietly(c) == Quietly(ws_set_status(c, {"ERR", "CLOSE"}))

\* Refusals come before the 101 response or, when onopen() fails, after it.
ws_get_handshake(c) ==
    FailWith(c, HttpErr)
    \cup IF c.eof THEN {}
         ELSE KeepReading(c)
              \cup ThenSetStatus(ws_respond(c, HttpErr), {"CLOSE"})
              \cup ThenSetStatus(RespondBoth(c, Switching, HttpErr), {"CLOSE"})
              \cup ThenSetStatus(ws_respond([c EXCEPT !.stage = "header"], Switching), {})

\* ws_manage_payload_opcode, and ws_free_frame: a data frame or a pong, a ping,
\* a close frame or a frame that breaks the protocol (with a Close frame sent,
\* or without).
ws_manage_payload_opcode(c0) ==
    LET c == [c0 EXCEPT !.stage = "header"]
    IN  Quietly(c) \cup ws_respond(c, Pong) \cup FailWith(c, CloseFrm) \cup FailQuietly(c)

\* ws_read_payload returns 0 at the end: that is not < 0, and not what it needs.
PayloadEnds(c) ==
    ThenSetStatus(FailWith([c EXCEPT !.eof = TRUE], CloseFrm), {"READING"})

\* The message's realloc() fails, or recv() fails, or the payload is complete.
ws_get_frm_payload(c) ==
    FailQuietly(c) \cup PayloadEnds(c)
    \cup IF c.eof THEN {}
         ELSE KeepReading(c) \cup FailWith(c, CloseFrm) \cup ws_manage_payload_opcode(c)

\* A complete header goes on to the payload in the same call.
ws_get_frm_header(c) ==
    FailWith(c, CloseFrm)
    \cup IF c.eof THEN {}
         ELSE KeepReading(c) \cup FailQuietly(c)
              \cup ThenSetStatus(ws_respond(c, CloseFrm), {"ERR", "CLOSE"})
              \cup ws_get_frm_payload([ws_set_status(c, {}) EXCEPT !.stage = "payload"])

read_client_data(c) ==
    CASE c.stage = "handshake" -> ws_get_handshake(c)
      [] c.stage = "header"    -> ws_get_frm_header(c)
      [] c.stage = "payload"   -> ws_get_frm_payload(c)

\* handle_ws_writes, up to the closing of the connection.
SendBuffered(c) ==
    { [r EXCEPT !.client.status = IF r.client.sockqueue THEN @ ELSE @ \ {"SENDING"}]
        : r \in ws_respond(c, <<>>) }

=============================================================================
